---------------------------- MODULE Spec2Model ----------------------------
(***************************************************************************)
(* Asset selection and batch orchestration of the API variant              *)
(* (src/Single-exe.py): the global execution_status, the /execute and      *)
(* /stop handlers, the background worker of run_download_task, and the     *)
(* retailer selectors _select_and_download_sobeys / _instacart.            *)
(***************************************************************************)
EXTENDS Naturals, Integers, Sequences, FiniteSets, TLC

(***************************************************************************)
(* Bounds of the model.                                                    *)
(***************************************************************************)
\* number of /execute requests that are accepted in one behaviour
MaxRuns == 2
\* length of the identifier list of one run
MaxItems == 2
\* length of the candidate list handed to a selector
MaxCands == 3
\* calls of a selector on the same arguments
MaxCalls == 2
\* number of ASINs of one GTIN
MaxAsins == 2
\* the carousel priorities run from 1 to MaxPriority
MaxPriority == 2
\* number of results in the grid of a search of the browser variant
MaxGrid == 2
\* number of rows of an uploaded sheet
MaxRows == 3
\* the runs of the browser variant that are started
MaxAppRuns == 1
\* the calls of the logger between two resets of the log
MaxLogCalls == 4

(***************************************************************************)
(* Helpers on sequences.                                                   *)
(***************************************************************************)
Min(S) == CHOOSE m \in S : \A n \in S : m <= n

Range(s) == {s[j] : j \in DOMAIN s}

\* how many times v occurs in sequence s
Occurrences(s, v) == Cardinality({j \in DOMAIN s : s[j] = v})

(***************************************************************************)
(* Asset records of the catalog API, as the selectors read them.           *)
(*   languages      asset['languages'] (a collection of language names)    *)
(*   hasLanguages   FALSE: the record has no 'languages' key (KeyError)    *)
(*   jpg            the record has a pimRenditions entry of format jpg      *)
(*                  with a url                                             *)
(***************************************************************************)
English == "English"
French == "French-Canadian"
Languages == {English, French}

\* _get_jpg_url: the url of the jpg rendition, "" standing for None
JpgUrl(a) == IF a.jpg THEN a.url ELSE ""

\* the generator conditions of the three next(...) searches
IsEnglishOnly(a) == English \in a.languages /\ French \notin a.languages

IsFrenchTagged(a) == French \in a.languages

IsMultilingual(a) == English \in a.languages /\ French \in a.languages

\* the condition of the search for en_asset ("en"), fr_asset ("fr"), ml_asset ("ml")
Matches(a, cond) ==
    CASE cond = "en" -> IsEnglishOnly(a)
      [] cond = "fr" -> IsFrenchTagged(a)
      [] OTHER       -> IsMultilingual(a)

\* next((a for a in assets if cond), None): index of the first match, 0 for None
FirstMatch(assets, cond) ==
    LET S == {j \in DOMAIN assets : assets[j].hasLanguages /\ Matches(assets[j], cond)}
    IN  IF S = {} THEN 0 ELSE Min(S)

\* the search evaluates a['languages'] on every record up to its first match:
\* a record without the key met before the match raises KeyError
SearchRaises(assets, cond) ==
    \E j \in DOMAIN assets :
        /\ ~assets[j].hasLanguages
        /\ \A k \in 1..(j - 1) : assets[k].hasLanguages /\ ~Matches(assets[k], cond)

(***************************************************************************)
(* Retailer naming conventions.                                            *)
(***************************************************************************)
SobeysAssetCode(asset_type) ==
    CASE asset_type = "Mobile Hero" -> "left"
      [] asset_type = "Front - 3D"  -> "front"
      [] asset_type = "Ingredients" -> "ing"
      [] asset_type = "Nutrition"   -> "nfp"
      [] OTHER                      -> "na"

get_sobeys_filename(article_id, lang_code, asset_type) ==
    IF asset_type = "Mobile Hero"
    THEN article_id \o "_EA_" \o lang_code \o "_na_" \o SobeysAssetCode(asset_type) \o "_na.jpg"
    ELSE IF asset_type = "Front - 3D"
    THEN article_id \o "_EA_" \o lang_code \o "_primary_" \o SobeysAssetCode(asset_type) \o "_na.jpg"
    ELSE article_id \o "_EA_" \o lang_code \o "_na_na_" \o SobeysAssetCode(asset_type) \o ".jpg"

InstacartSuffix(asset_type) ==
    CASE asset_type = "Mobile Hero"      -> "main"
      [] asset_type = "Left Front - 3D"  -> "sideleft"
      [] asset_type = "Right Front - 3D" -> "sideright"
      [] asset_type = "Ingredients"      -> "ing"
      [] asset_type = "Nutrition"        -> "nut"
      [] OTHER                           -> "na"

get_instacart_filename(gtin, asset_type) == gtin \o "-" \o InstacartSuffix(asset_type) \o ".jpg"

(***************************************************************************)
(* Selection of _select_and_download_sobeys (lines 92-109): the list       *)
(* assets_to_download, each entry the index of the candidate and the       *)
(* language code it is saved under.                                        *)
(***************************************************************************)
SobeysEnFr(assets, asset_label) ==
    LET en == FirstMatch(assets, "en")
        fr == FirstMatch(assets, "fr")
    IN  (IF en # 0 THEN <<[idx |-> en, lang |-> "en"]>> ELSE <<>>)
        \o (IF fr # 0 THEN <<[idx |-> fr, lang |-> "fr"]>> ELSE <<>>)

SobeysNoMlPreference(assets, asset_label) == SobeysEnFr(assets, asset_label)

SobeysSelection(assets, asset_label) ==
    LET ml == FirstMatch(assets, "ml")
    IN  IF asset_label = "Mobile Hero"
        THEN SobeysEnFr(assets, asset_label)
        ELSE IF ml # 0
             THEN <<[idx |-> ml, lang |-> "ml"]>>
             ELSE SobeysEnFr(assets, asset_label)

\* one of the three searches of lines 95-97 raises KeyError
SobeysSelectionRaises(assets) ==
    \/ SearchRaises(assets, "en")
    \/ SearchRaises(assets, "fr")
    \/ SearchRaises(assets, "ml")

(***************************************************************************)
(* Selection of _select_and_download_instacart (lines 125-131):            *)
(* chosen_asset, as a list of at most one index.                           *)
(***************************************************************************)
InstacartMlFirst(assets) ==
    LET en == FirstMatch(assets, "en")
        ml == FirstMatch(assets, "ml")
    IN  IF ml # 0 THEN <<ml>> ELSE IF en # 0 THEN <<en>> ELSE <<>>

InstacartSelection(assets) ==
    LET en == FirstMatch(assets, "en")
        ml == FirstMatch(assets, "ml")
    IN  IF en # 0 THEN <<en>> ELSE IF ml # 0 THEN <<ml>> ELSE <<>>

\* the second search runs only when the first found nothing
InstacartSelectionRaises(assets) ==
    \/ SearchRaises(assets, "en")
    \/ FirstMatch(assets, "en") = 0 /\ SearchRaises(assets, "ml")

(***************************************************************************)
(* The download half of the two selectors.  env gives, for each url, how   *)
(* save_image_from_url ends:                                               *)
(*   "ok"      the bytes are written, it returns True                      *)
(*   "neterr"  requests raises RequestException, caught: returns False     *)
(*   "oserr"   open(file_path, 'wb') raises OSError, which is not caught   *)
(* A result is [ret, files, raised]: the return value, the paths written,  *)
(* and whether an exception left the function.                             *)
(***************************************************************************)
DownloadOutcomes == {"ok", "neterr", "oserr"}

NoDownload == [ret |-> FALSE, files |-> {}, raised |-> FALSE]

Raised == [ret |-> FALSE, files |-> {}, raised |-> TRUE]

RECURSIVE SobeysSaveUntilFailure(_, _, _, _, _, _)
\* the loop of lines 111-121 left at the first download that fails
SobeysSaveUntilFailure(sel, assets, asset_label, article_id, download_folder, env) ==
    IF sel = <<>> THEN NoDownload
    ELSE LET url == JpgUrl(assets[Head(sel).idx])
             path == download_folder \o "/"
                     \o get_sobeys_filename(article_id, Head(sel).lang, asset_label)
             rest == SobeysSaveUntilFailure(Tail(sel), assets, asset_label, article_id,
                                            download_folder, env)
         IN  IF url = "" THEN rest
             ELSE IF env[url] = "oserr" THEN Raised
             ELSE IF env[url] = "ok"
                  THEN [ret |-> TRUE, files |-> {path} \cup rest.files,
                        raised |-> rest.raised]
                  ELSE NoDownload

RECURSIVE SobeysSaveAll(_, _, _, _, _, _)
\* the loop of lines 111-121 over assets_to_download
SobeysSaveAll(sel, assets, asset_label, article_id, download_folder, env) ==
    IF sel = <<>> THEN NoDownload
    ELSE LET url == JpgUrl(assets[Head(sel).idx])
             path == download_folder \o "/"
                     \o get_sobeys_filename(article_id, Head(sel).lang, asset_label)
             rest == SobeysSaveAll(Tail(sel), assets, asset_label, article_id,
                                   download_folder, env)
         IN  IF url = "" THEN rest
             ELSE IF env[url] = "oserr" THEN Raised
             ELSE IF env[url] = "ok"
                  THEN [ret |-> TRUE, files |-> {path} \cup rest.files,
                        raised |-> rest.raised]
                  ELSE rest

select_and_download_sobeys(assets_for_type, asset_label, article_id, download_folder, env) ==
    IF assets_for_type = <<>> THEN NoDownload
    ELSE IF SobeysSelectionRaises(assets_for_type) THEN Raised
    ELSE SobeysSaveAll(SobeysSelection(assets_for_type, asset_label), assets_for_type,
                       asset_label, article_id, download_folder, env)

select_and_download_instacart(assets_for_type, asset_label, gtin, download_folder, env) ==
    IF assets_for_type = <<>> THEN NoDownload
    ELSE IF InstacartSelectionRaises(assets_for_type) THEN Raised
    ELSE LET sel == InstacartSelection(assets_for_type)
             url == JpgUrl(assets_for_type[sel[1]])
             path == download_folder \o "/" \o get_instacart_filename(gtin, asset_label)
         IN  IF sel = <<>> THEN NoDownload
             ELSE IF url = "" THEN NoDownload
             ELSE IF env[url] = "oserr" THEN Raised
             ELSE IF env[url] = "ok"
                  THEN [ret |-> TRUE, files |-> {path}, raised |-> FALSE]
                  ELSE NoDownload

(***************************************************************************)
(* RETAILER_CONFIGS.                                                       *)
(***************************************************************************)
Retailers == <<"Sobeys", "Instacart">>

RetailerAssetTypes(retailer_name) ==
    IF retailer_name = "Sobeys"
    THEN <<"Mobile Hero", "Front - 3D", "Ingredients", "Nutrition">>
    ELSE <<"Mobile Hero", "Left Front - 3D", "Right Front - 3D", "Ingredients", "Nutrition">>

RetailerFolder(retailer_name) ==
    IF retailer_name = "Sobeys" THEN "C:/Downloads/Sobeys" ELSE "C:/Downloads/Instacart"

\* item_data.get(config['save_id_key']); "" stands for a missing or empty id
RetailerSaveId(retailer_name, item_data) ==
    IF retailer_name = "Sobeys" THEN item_data.article_id ELSE item_data.gtin

download_func(retailer_name, assets_for_type, asset_label, save_id, env) ==
    IF retailer_name = "Sobeys"
    THEN select_and_download_sobeys(assets_for_type, asset_label, save_id,
                                    RetailerFolder(retailer_name), env)
    ELSE select_and_download_instacart(assets_for_type, asset_label, save_id,
                                       RetailerFolder(retailer_name), env)

(***************************************************************************)
(* The catalog service: what GET /api/v1/assets/version/<bmn>/json answers *)
(* for each BMN of the model, one BMN per branch of process_single_bmn.    *)
(* The answer for a BMN does not change during a behaviour.                *)
(*   neterr   requests.get raises RequestException                         *)
(*   status   the HTTP status (response.ok is status < 400)                *)
(*   title    the "title" of the JSON error body ("" : the body is no JSON)*)
(*   assets   data['assets'] (<<>> also stands for a missing key)          *)
(***************************************************************************)
Asset(url, state, indicator, langs) ==
    [url |-> url, assetState |-> state, packageFacingIndicator |-> indicator,
     languages |-> langs, hasLanguages |-> TRUE, jpg |-> TRUE]

Answer(status, title, assets) ==
    [neterr |-> FALSE, status |-> status, title |-> title, assets |-> assets]

BMNs == {"100", "200", "300", "350", "400", "500", "600", "700", "800", "900"}

Catalog(bmn) ==
    CASE bmn = "100" ->
           Answer(200, "", << Asset("u1", "Current", "Mobile Hero", {English}),
                              Asset("u2", "Current", "Mobile Hero", {French}) >>)
      [] bmn = "200" -> Answer(500, "NotFoundException", <<>>)
      [] bmn = "300" -> Answer(503, "", <<>>)
      [] bmn = "350" -> Answer(500, "InternalServerError", <<>>)
      [] bmn = "400" -> [Answer(0, "", <<>>) EXCEPT !.neterr = TRUE]
      [] bmn = "500" -> Answer(200, "", <<>>)
      [] bmn = "600" ->
           Answer(200, "", << Asset("u3", "Restricted", "Mobile Hero", {English}),
                              Asset("u4", "Current", "Nutrition", {English, French}) >>)
      [] bmn = "700" ->
           Answer(200, "", << Asset("u5", "Archived", "Mobile Hero", {English}) >>)
      [] bmn = "800" ->
           Answer(200, "", << [Asset("u6", "Current", "Mobile Hero", {})
                                  EXCEPT !.hasLanguages = FALSE] >>)
      [] OTHER ->
           Answer(200, "", << Asset("u7", "Current", "Nutrition", {English, French}) >>)

\* every title of an error body taken for the not-found one
AnyTitle(title) == TRUE

\* "NotFound" in error_json.get("title", "")
TitleHasNotFound(title) == title \in {"NotFound", "NotFoundException"}

\* the identifier record of a BMN (one spreadsheet row or one form submission)
Item(bmn) == [bmn |-> bmn, article_id |-> "A" \o bmn, gtin |-> "G" \o bmn]

\* the urls save_image_from_url may be called with for a BMN
UrlsOf(bmn) == {JpgUrl(a) : a \in Range(Catalog(bmn).assets)}

(***************************************************************************)
(* _process_item_for_retailer and process_single_bmn.  A result is         *)
(* [ret, bucket, files, raised]: bucket names the execution_status list    *)
(* the BMN is appended to ("none", "not_in_mojo", "restricted").           *)
(***************************************************************************)
\* grouped_assets.get(keyword, []): the Current assets with that indicator
AssetsForType(valid_assets, keyword) ==
    SelectSeq(valid_assets, LAMBDA a : a.packageFacingIndicator = keyword)

RECURSIVE ProcessAssetTypes(_, _, _, _, _)
\* the loop of lines 170-173 over config['asset_types']
ProcessAssetTypes(labels, retailer_name, save_id, valid_assets, env) ==
    IF labels = <<>> THEN NoDownload
    ELSE LET one == download_func(retailer_name,
                                  AssetsForType(valid_assets, Head(labels)),
                                  Head(labels), save_id, env)
             rest == ProcessAssetTypes(Tail(labels), retailer_name, save_id,
                                       valid_assets, env)
         IN  IF one.raised THEN one
             ELSE [ret |-> one.ret \/ rest.ret, files |-> one.files \cup rest.files,
                   raised |-> rest.raised]

process_item_for_retailer(retailer_name, item_data, valid_assets, env) ==
    IF RetailerSaveId(retailer_name, item_data) = "" THEN NoDownload
    ELSE ProcessAssetTypes(RetailerAssetTypes(retailer_name), retailer_name,
                           RetailerSaveId(retailer_name, item_data), valid_assets, env)

RECURSIVE ProcessRetailers(_, _, _, _)
\* the loop of lines 233-235 over retailers_to_process
ProcessRetailers(retailers, item_data, valid_assets, env) ==
    IF retailers = <<>> THEN NoDownload
    ELSE LET one == process_item_for_retailer(Head(retailers), item_data, valid_assets, env)
             rest == ProcessRetailers(Tail(retailers), item_data, valid_assets, env)
         IN  IF one.raised THEN one
             ELSE [ret |-> one.ret \/ rest.ret, files |-> one.files \cup rest.files,
                   raised |-> rest.raised]

Outcome(bucket, r) ==
    [ret |-> r.ret, bucket |-> bucket, files |-> r.files, raised |-> r.raised]

\* the restricted check of lines 215-218 left out: the Current assets of a
\* restricted product are downloaded
process_single_bmn_no_short_circuit(item_data, retailers_to_process, env) ==
    LET response == Catalog(item_data.bmn)
        valid_assets == SelectSeq(response.assets, LAMBDA a : a.assetState = "Current")
        restricted == \E j \in DOMAIN response.assets :
                          response.assets[j].assetState = "Restricted"
    IN  IF response.neterr THEN Outcome("none", NoDownload)
        ELSE IF response.status >= 400
        THEN IF response.status = 500 /\ TitleHasNotFound(response.title)
             THEN Outcome("not_in_mojo", NoDownload)
             ELSE Outcome("none", NoDownload)
        ELSE IF response.assets = <<>> THEN Outcome("not_in_mojo", NoDownload)
        ELSE IF valid_assets = <<>>
             THEN Outcome(IF restricted THEN "restricted" ELSE "none", NoDownload)
        ELSE Outcome(IF restricted THEN "restricted" ELSE "none",
                     ProcessRetailers(retailers_to_process, item_data, valid_assets, env))

process_single_bmn(item_data, retailers_to_process, env) ==
    LET response == Catalog(item_data.bmn)
        valid_assets == SelectSeq(response.assets, LAMBDA a : a.assetState = "Current")
    IN  IF response.neterr THEN Outcome("none", NoDownload)
        ELSE IF response.status >= 400
        THEN IF response.status = 500 /\ TitleHasNotFound(response.title)
             THEN Outcome("not_in_mojo", NoDownload)
             ELSE Outcome("none", NoDownload)
        ELSE IF response.assets = <<>> THEN Outcome("not_in_mojo", NoDownload)
        ELSE IF \E j \in DOMAIN response.assets :
                    response.assets[j].assetState = "Restricted"
        THEN Outcome("restricted", NoDownload)
        ELSE IF valid_assets = <<>> THEN Outcome("none", NoDownload)
        ELSE Outcome("none",
                     ProcessRetailers(retailers_to_process, item_data, valid_assets, env))

\* retailers_to_process of process_all_items (line 241)
RetailersToProcess(selected_retailer) ==
    IF selected_retailer = "Both" THEN Retailers ELSE <<selected_retailer>>

(***************************************************************************)
(* State of the batch orchestrator.                                        *)
(*   running .. restricted_bmns   the fields of execution_status           *)
(*   response    the HTTP status of the last request handled (0: none yet) *)
(*   runs        how many /execute requests were accepted                  *)
(*   workers     the background thread of each accepted run:               *)
(*     pc        "idle"  not started yet                                   *)
(*               "start" thread started, before process_all_items          *)
(*               "loop"  at the head of the for loop (line 248)            *)
(*               "item"  inside process_single_bmn for item i              *)
(*               "summary" after the loop (lines 264-280)                  *)
(*               "finally" in the finally clause of run_async              *)
(*               "done"  thread ended (its record is cleared)              *)
(*     n         len(search_data)                                          *)
(*     items     search_data[0:i], the BMNs of the items started so far.   *)
(*               The list is fixed when the run is accepted; the model     *)
(*               draws each entry when the loop reaches it (the entries    *)
(*               not reached yet are read by nothing), distinct from the   *)
(*               ones before it, as the parser leaves them                 *)
(*     i         the loop index: items started so far                      *)
(*     exit      how the loop was left: "completed", "stopped" (break),    *)
(*               "exception"                                               *)
(*     stopMark  items started when the first stop request hit the run     *)
(*               (-1: no stop request yet)                                 *)
(*     ok        indices of the items process_single_bmn returned True for *)
(*     wrote     indices of the items a file was written for               *)
(*     summary   the execution_summary event emitted (<<>>: none)          *)
(*   files       the paths written on disk                                 *)
(* The fields logs, progress, current_task and current_search_id of        *)
(* execution_status are written and never read by the code modelled here;  *)
(* they are left out.                                                      *)
(***************************************************************************)
VARIABLES running, total_items, completed_items, not_in_mojo_bmns, restricted_bmns,
          response, runs, workers, files

(***************************************************************************)
(* State of one selector call, for the properties of the selectors as      *)
(* functions of their arguments.                                           *)
(*   cands     assets_for_type                                             *)
(*   slot      asset_label                                                 *)
(*   called    "" before the call, then the retailer whose selector ran    *)
(*   selected  the selection the call made (SobeysSelection /              *)
(*             InstacartSelection)                                         *)
(*   result    [ret, files, raised] of the call                            *)
(*   calls     how many times the selector was called on these arguments   *)
(***************************************************************************)
VARIABLES cands, slot, called, selected, result, calls

selVars == <<cands, slot, called, selected, result, calls>>

(***************************************************************************)
(* State of one process_single_bmn call, for its properties as a function  *)
(* of the item, the retailers and the catalog's answer.                    *)
(*   item_data   the identifier record (a missing save id is "")           *)
(*   retailers   retailers_to_process                                      *)
(*   outcome     <<>> before the call, then <<[ret, bucket, files, raised]>>*)
(***************************************************************************)
VARIABLES item_data, retailers, outcome

itemVars == <<item_data, retailers, outcome>>

(***************************************************************************)
(* The browser variant (src/App.py).  It has its own execution_status;     *)
(* the fields modelled are running, total_items, completed_items and       *)
(* failed_items.                                                           *)
(*   app_status   execution_status of src/App.py                           *)
(*   app_reply    the last request answered: which one ("" none yet,       *)
(*                "execute", "stop") and its HTTP status                   *)
(*   app_runs     how many /execute requests were accepted                 *)
(*   app_workers  the background thread of each accepted run               *)
(***************************************************************************)
VARIABLES app_status, app_reply, app_runs, app_workers

(***************************************************************************)
(* One process_single_gtin call of the browser variant: the carousel       *)
(* images, then the nutrition image, each saved to every ASIN folder.      *)
(*   asins       the ASINs of the GTIN                                     *)
(*   phase       "enter"           before create_asin_folders (line 468)   *)
(*               "carousel_start"  at the top of download_carousel_images  *)
(*               "carousel"        at the head of its loop (line 294)      *)
(*               "standard_start"  line 485 done, at the top of            *)
(*                                 download_standard_asset                 *)
(*               "standard"        at the head of its loop (line 391)      *)
(*               "returned", "raised"  process_single_gtin has ended       *)
(*   num_items   the number of results in the grid of the current search   *)
(*   grid        the results the current loop has examined, each drawn     *)
(*               when the loop reaches it:                                 *)
(*                 meta  "ok", or "err": reading the details raised        *)
(*                 priority, hasRetailer, retailer_name   what the details *)
(*                       panel shows                                       *)
(*                 fetch "ok", or "fail": the download did not arrive      *)
(*                 saves how many save_as calls succeed                    *)
(*                 back  "ok", or "err": the back button raised (line 443) *)
(*               (fetch, saves, back are "fail", 0, "ok" for a result the  *)
(*               loop did not try to download)                             *)
(*   pos         the loop index: results examined so far                   *)
(*   downloads_succeeded, max_sequence_num, downloaded_priorities          *)
(*               the locals of download_carousel_images                    *)
(*   nutrition_sequence   the local of process_single_gtin (0: not set)    *)
(*   tried       indices of the results of grid whose download was started *)
(*   kept        indices of the results of grid saved to every ASIN folder *)
(*   saved       <<>>, or the result of the save_to_all_asin_folders call  *)
(*               of the last step with the sequence number it was given;   *)
(*               the download handed to it is named by the search and the  *)
(*               index of the result it was fetched for                    *)
(*   gtin_result <<>>, then the return value of process_single_gtin        *)
(***************************************************************************)
VARIABLES asins, phase, num_items, grid, pos, downloads_succeeded, max_sequence_num,
          downloaded_priorities, nutrition_sequence, tried, kept, saved,
          gtin_result

carVars == <<asins, phase, num_items, grid, pos, downloads_succeeded, max_sequence_num,
             downloaded_priorities, nutrition_sequence, tried, kept, saved,
             gtin_result>>

appVars == <<app_status, app_reply, app_runs, app_workers>>

(***************************************************************************)
(* State of one upload handled by execute_download of src/Single-exe.py.   *)
(*   table          the uploaded sheet as pandas reads it: the header      *)
(*                  names and the rows                                     *)
(*   retailer_mode  the retailer field of the form                         *)
(*   parsed         <<>> before the request, then what                     *)
(*                  parse_search_ids_from_file returned:                   *)
(*                  <<[search_data, duplicates]>>                          *)
(***************************************************************************)
VARIABLES table, retailer_mode, parsed

parseVars == <<table, retailer_mode, parsed>>

(***************************************************************************)
(* State of the log of execution_status.                                   *)
(*   logs     execution_status['logs']                                     *)
(*   logged   how many entries WebSocketLogger.log was called with since   *)
(*            the list was last replaced                                   *)
(***************************************************************************)
VARIABLES logs, logged

logVars == <<logs, logged>>

orchVars == <<running, total_items, completed_items, not_in_mojo_bmns, restricted_bmns,
              response, runs, workers, files>>

Runs == 1..MaxRuns

\* the BMNs the uploads of the batch runs are made of
BatchBMNs == {"200", "600", "900"}

\* the lengths of the identifier lists an upload can parse to
UploadLengths == 1..MaxItems

\* the retailer field of the /execute form
RetailerChoices == {"Sobeys", "Instacart", "Both"}

\* the retailer selections the batch runs of the model are started with
BatchRetailerChoices == {"Both"}

IdleWorker ==
    [pc |-> "idle", i |-> 0, n |-> 0, items |-> <<>>, retailer |-> "", exit |-> "none",
     stopMark |-> -1, ok |-> {}, wrote |-> {}, summary |-> <<>>]

\* a thread that exists and has not ended
Alive(w) == workers[w].pc \notin {"idle", "done"}

OrchInit ==
    /\ running = FALSE
    /\ total_items = 0
    /\ completed_items = 0
    /\ not_in_mojo_bmns = <<>>
    /\ restricted_bmns = <<>>
    /\ response = 0
    /\ runs = 0
    /\ workers = [w \in Runs |-> IdleWorker]
    /\ files = {}

(***************************************************************************)
(* POST /execute (execute_download).  The handler is taken as one step,    *)
(* the scheduling most favourable to the code; the thread it starts runs   *)
(* on its own.                                                             *)
(***************************************************************************)
ExecuteRejected ==
    /\ running
    /\ response' = 400
    /\ UNCHANGED <<running, total_items, completed_items, not_in_mojo_bmns,
                   restricted_bmns, runs, workers, files>>
    /\ UNCHANGED <<selVars, itemVars, appVars, carVars, parseVars, logVars>>

\* parse_search_ids_from_file returned [] (missing columns, no rows, an error)
ExecuteNoData ==
    /\ ~running
    /\ response' = 400
    /\ UNCHANGED <<running, total_items, completed_items, not_in_mojo_bmns,
                   restricted_bmns, runs, workers, files>>
    /\ UNCHANGED <<selVars, itemVars, appVars, carVars, parseVars, logVars>>

ExecuteAccepted ==
    /\ ~running
    /\ runs < MaxRuns
    /\ \E n \in UploadLengths, retailer \in BatchRetailerChoices :
          /\ running' = TRUE
          /\ total_items' = n
          /\ completed_items' = 0
          /\ not_in_mojo_bmns' = <<>>
          /\ restricted_bmns' = <<>>
          /\ runs' = runs + 1
          /\ workers' = [workers EXCEPT ![runs + 1] =
                            [IdleWorker EXCEPT !.pc = "start", !.n = n,
                                               !.retailer = retailer]]
    /\ response' = 200
    /\ UNCHANGED files
    /\ UNCHANGED <<selVars, itemVars, appVars, carVars, parseVars, logVars>>

execute_download == ExecuteRejected \/ ExecuteNoData \/ ExecuteAccepted

(***************************************************************************)
(* POST /stop (stop_execution).                                            *)
(***************************************************************************)
StopAccepted ==
    /\ running
    /\ running' = FALSE
    /\ response' = 200
    /\ workers' = [w \in Runs |->
                     IF Alive(w) /\ workers[w].stopMark = -1
                     THEN [workers[w] EXCEPT !.stopMark = workers[w].i]
                     ELSE workers[w]]
    /\ UNCHANGED <<total_items, completed_items, not_in_mojo_bmns, restricted_bmns,
                   runs, files>>
    /\ UNCHANGED <<selVars, itemVars, appVars, carVars, parseVars, logVars>>

StopRejected ==
    /\ ~running
    /\ response' = 400
    /\ UNCHANGED <<running, total_items, completed_items, not_in_mojo_bmns,
                   restricted_bmns, runs, workers, files>>
    /\ UNCHANGED <<selVars, itemVars, appVars, carVars, parseVars, logVars>>

stop_execution == StopAccepted \/ StopRejected

(***************************************************************************)
(* The background thread: run_async and process_all_items.                 *)
(***************************************************************************)
\* lines 241-246
WorkerBegin(w) ==
    /\ workers[w].pc = "start"
    /\ total_items' = workers[w].n
    /\ completed_items' = 0
    /\ workers' = [workers EXCEPT ![w].pc = "loop"]
    /\ UNCHANGED <<running, not_in_mojo_bmns, restricted_bmns, response, runs, files>>
    /\ UNCHANGED <<selVars, itemVars, appVars, carVars, parseVars, logVars>>

\* lines 248-256: the next iteration, the break, or the end of the list
WorkerLoop(w) ==
    /\ workers[w].pc = "loop"
    /\ \/ /\ workers[w].i = workers[w].n
          /\ workers' = [workers EXCEPT ![w].pc = "summary", ![w].exit = "completed"]
       \/ /\ workers[w].i < workers[w].n
          /\ ~running
          /\ workers' = [workers EXCEPT ![w].pc = "summary", ![w].exit = "stopped"]
       \/ /\ workers[w].i < workers[w].n
          /\ running
          /\ \E bmn \in BatchBMNs \ Range(workers[w].items) :
                workers' = [workers EXCEPT ![w].pc = "item", ![w].i = @ + 1,
                                           ![w].items = Append(@, bmn)]
    /\ UNCHANGED <<running, total_items, completed_items, not_in_mojo_bmns,
                   restricted_bmns, response, runs, files>>
    /\ UNCHANGED <<selVars, itemVars, appVars, carVars, parseVars, logVars>>

\* lines 259-262: process_single_bmn for item i, then completed_items = i;
\* an exception leaves process_all_items for the except clause of run_async
WorkerItem(w) ==
    /\ workers[w].pc = "item"
    /\ LET me == workers[w]
           bmn == me.items[me.i]
       IN  \E env \in [UrlsOf(bmn) -> DownloadOutcomes] :
              LET r == process_single_bmn(Item(bmn), RetailersToProcess(me.retailer), env)
              IN  /\ not_in_mojo_bmns' = IF r.bucket = "not_in_mojo"
                                         THEN Append(not_in_mojo_bmns, bmn)
                                         ELSE not_in_mojo_bmns
                  /\ restricted_bmns' = IF r.bucket = "restricted"
                                        THEN Append(restricted_bmns, bmn)
                                        ELSE restricted_bmns
                  /\ files' = files \cup r.files
                  /\ completed_items' = IF r.raised THEN completed_items ELSE me.i
                  /\ workers' = [workers EXCEPT ![w] =
                        [@ EXCEPT !.pc = IF r.raised THEN "finally" ELSE "loop",
                                  !.exit = IF r.raised THEN "exception" ELSE @,
                                  !.ok = IF r.ret /\ ~r.raised THEN @ \cup {me.i} ELSE @,
                                  !.wrote = IF r.files # {} THEN @ \cup {me.i} ELSE @]]
    /\ UNCHANGED <<running, total_items, response, runs>>
    /\ UNCHANGED <<selVars, itemVars, appVars, carVars, parseVars, logVars>>

\* lines 277-280: the payload of the execution_summary event
execution_summary(not_in_mojo, restricted) ==
    [failed_bmns |-> not_in_mojo, restricted_bmns |-> restricted]

\* lines 264-280: the execution_summary event
WorkerSummary(w) ==
    /\ workers[w].pc = "summary"
    /\ workers' = [workers EXCEPT ![w] =
          [@ EXCEPT !.pc = "finally",
                    !.summary = <<execution_summary(not_in_mojo_bmns,
                                                    restricted_bmns)>>]]
    /\ UNCHANGED <<running, total_items, completed_items, not_in_mojo_bmns,
                   restricted_bmns, response, runs, files>>
    /\ UNCHANGED <<selVars, itemVars, appVars, carVars, parseVars, logVars>>

\* lines 291-294
WorkerFinally(w) ==
    /\ workers[w].pc = "finally"
    /\ running' = FALSE
    /\ workers' = [workers EXCEPT ![w] = [IdleWorker EXCEPT !.pc = "done"]]
    /\ UNCHANGED <<total_items, completed_items, not_in_mojo_bmns, restricted_bmns,
                   response, runs, files>>
    /\ UNCHANGED <<selVars, itemVars, appVars, carVars, parseVars, logVars>>

run_download_task ==
    \E w \in Runs :
        \/ WorkerBegin(w)
        \/ WorkerLoop(w)
        \/ WorkerItem(w)
        \/ WorkerSummary(w)
        \/ WorkerFinally(w)

OrchNext == execute_download \/ stop_execution \/ run_download_task

(***************************************************************************)
(* One selector call on a bounded candidate list.                          *)
(***************************************************************************)
Url(j) == "u" \o ToString(j)

\* what a candidate is made of: its language tags, and whether it has a jpg
CandKinds == [languages : SUBSET Languages, jpg : BOOLEAN]

MakeCands(kinds, label) ==
    [j \in DOMAIN kinds |->
        [url |-> Url(j), assetState |-> "Current", packageFacingIndicator |-> label,
         languages |-> kinds[j].languages, hasLanguages |-> TRUE, jpg |-> kinds[j].jpg]]

SelectorSlots ==
    Range(RetailerAssetTypes("Sobeys")) \cup Range(RetailerAssetTypes("Instacart"))

SelInit ==
    /\ slot \in SelectorSlots
    /\ \E n \in 0..MaxCands : \E kinds \in [1..n -> CandKinds] :
          cands = MakeCands(kinds, slot)
    /\ called = ""
    /\ selected = <<>>
    /\ result = NoDownload
    /\ calls = 0

SelIdle ==
    /\ cands = <<>>
    /\ slot = ""
    /\ called = ""
    /\ selected = <<>>
    /\ result = NoDownload
    /\ calls = 0

\* the selector called on the same arguments again, if it chose nothing to
\* download where the earlier call has saved a file
CallSobeysSkippingSaved ==
    /\ called \in {"", "Sobeys"}
    /\ calls < MaxCalls
    /\ calls' = calls + 1
    /\ called' = "Sobeys"
    /\ selected' = IF result.files # {} THEN <<>> ELSE SobeysSelection(cands, slot)
    /\ \E env \in [{JpgUrl(cands[j]) : j \in DOMAIN cands} -> DownloadOutcomes] :
          result' = select_and_download_sobeys(cands, slot, "A1",
                                               RetailerFolder("Sobeys"), env)
    /\ UNCHANGED <<cands, slot>>
    /\ UNCHANGED <<orchVars, itemVars, appVars, carVars, parseVars, logVars>>

\* a call of _select_and_download_sobeys; it may be repeated on the same
\* arguments
CallSobeys ==
    /\ called \in {"", "Sobeys"}
    /\ calls < MaxCalls
    /\ calls' = calls + 1
    /\ called' = "Sobeys"
    /\ selected' = SobeysSelection(cands, slot)
    /\ \E env \in [{JpgUrl(cands[j]) : j \in DOMAIN cands} -> DownloadOutcomes] :
          result' = select_and_download_sobeys(cands, slot, "A1",
                                               RetailerFolder("Sobeys"), env)
    /\ UNCHANGED <<cands, slot>>
    /\ UNCHANGED <<orchVars, itemVars, appVars, carVars, parseVars, logVars>>

\* a call of _select_and_download_instacart; it may be repeated on the same
\* arguments
CallInstacart ==
    /\ called \in {"", "Instacart"}
    /\ calls < MaxCalls
    /\ calls' = calls + 1
    /\ called' = "Instacart"
    /\ selected' = [j \in DOMAIN InstacartSelection(cands) |->
                       [idx |-> InstacartSelection(cands)[j], lang |-> ""]]
    /\ \E env \in [{JpgUrl(cands[j]) : j \in DOMAIN cands} -> DownloadOutcomes] :
          result' = select_and_download_instacart(cands, slot, "G1",
                                                  RetailerFolder("Instacart"), env)
    /\ UNCHANGED <<cands, slot>>
    /\ UNCHANGED <<orchVars, itemVars, appVars, carVars, parseVars, logVars>>

SelNext == CallSobeys \/ CallInstacart

(***************************************************************************)
(* One process_single_bmn call on any BMN of the catalog.                  *)
(***************************************************************************)
ItemInit ==
    /\ \E bmn \in BMNs, article_id \in {"", "A1"}, gtin \in {"", "G1"} :
          item_data = [bmn |-> bmn, article_id |-> article_id, gtin |-> gtin]
    /\ \E selected_retailer \in RetailerChoices :
          retailers = RetailersToProcess(selected_retailer)
    /\ outcome = <<>>

ItemIdle ==
    /\ item_data = Item("")
    /\ retailers = <<>>
    /\ outcome = <<>>

CallProcessSingleBmn ==
    /\ outcome = <<>>
    /\ \E env \in [UrlsOf(item_data.bmn) -> DownloadOutcomes] :
          outcome' = <<process_single_bmn(item_data, retailers, env)>>
    /\ UNCHANGED <<item_data, retailers>>
    /\ UNCHANGED <<orchVars, selVars, appVars, carVars, parseVars, logVars>>

ItemNext == CallProcessSingleBmn

(***************************************************************************)
(* Naming and fan-out of the browser variant.                              *)
(***************************************************************************)
DOWNLOAD_FOLDER == "C:/Downloads/Amazon"

\* f"{sequence_num:02d}"
TwoDigits(sequence_num) ==
    IF sequence_num < 10 THEN "0" \o ToString(sequence_num) ELSE ToString(sequence_num)

\* sequence_num = NoSequence stands for sequence_num=None
NoSequence == -1

\* lines 234-239: the file name of one ASIN
AsinFilename(asin, filename_pattern, sequence_num) ==
    IF sequence_num # NoSequence
    THEN asin \o ".PT" \o TwoDigits(sequence_num) \o ".jpeg"
    ELSE asin \o "." \o filename_pattern \o ".jpeg"

\* create_asin_folders and line 241: os.path.join(asin_folders[asin], filename)
AsinPath(asin, filename) == DOWNLOAD_FOLDER \o "/" \o asin \o "/" \o filename

\* the fan-out cut short: the download is saved for the first ASIN only
save_to_first_asin_folder(download, asin_list, filename_pattern, sequence_num, saves) ==
    [saved_files |-> IF saves = 0 THEN <<>>
                     ELSE << [path |-> AsinPath(asin_list[1],
                                         AsinFilename(asin_list[1], filename_pattern,
                                                      sequence_num)),
                              download |-> download] >>,
     raised |-> saves < Len(asin_list)]

\* save_to_all_asin_folders: download.save_as once per ASIN, in list order.
\* saves is the number of save_as calls that succeed; a failing one raises and
\* leaves the files saved before it.  A saved file is the path and the
\* download whose bytes it holds.
save_to_all_asin_folders(download, asin_list, filename_pattern, sequence_num, saves) ==
    [saved_files |->
        [k \in 1..(IF saves < Len(asin_list) THEN saves ELSE Len(asin_list)) |->
            [path |-> AsinPath(asin_list[k],
                               AsinFilename(asin_list[k], filename_pattern, sequence_num)),
             download |-> download]],
     raised |-> saves < Len(asin_list)]

(***************************************************************************)
(* The retailer field of a search result (div RetailerToAsset).            *)
(***************************************************************************)
RetailerNames == {" ", "Amazon", "Walmart"}

\* retailer_name.lower()
Lower(retailer_name) ==
    CASE retailer_name = "Amazon"  -> "amazon"
      [] retailer_name = "Walmart" -> "walmart"
      [] OTHER                     -> retailer_name

\* retailer_name.strip()
StripName(retailer_name) == IF retailer_name = " " THEN "" ELSE retailer_name

\* every name counts as Amazon's
NamesAnything(retailer_name) == TRUE

\* "amazon" in retailer_name.lower()
NamesAmazon(retailer_name) == Lower(retailer_name) \in {"amazon"}

\* lines 313-318 of download_carousel_images: a visible field that does not
\* name Amazon
CarouselRetailerSkips(c) == c.hasRetailer /\ ~NamesAmazon(c.retailer_name)

\* lines 414-418 of download_standard_asset: a field that is not blank and
\* does not name Amazon
StandardRetailerSkips(c) ==
    c.hasRetailer /\ StripName(c.retailer_name) # "" /\ ~NamesAmazon(c.retailer_name)

\* the carousel's maximum taken as it is
SameSequence(max_carousel_seq) == max_carousel_seq

\* the nutrition image numbered as the last carousel image
LastSequence(max_carousel_seq) == IF max_carousel_seq = 0 THEN 1 ELSE max_carousel_seq

\* line 485: nutrition_sequence = max_carousel_seq + 1
NextSequence(max_carousel_seq) == max_carousel_seq + 1

Max2(a, b) == IF a >= b THEN a ELSE b

AsinNames == <<"B1", "B2", "B3", "B4">>

\* the ASIN lists of a GTIN: the catalog map holds a set of ASINs per key
AsinLists == {SubSeq(AsinNames, 1, n) : n \in 1..MaxAsins}

Priorities == 1..MaxPriority

\* a result whose details could not be read
UnreadResult ==
    [meta |-> "err", priority |-> 0, hasRetailer |-> FALSE, retailer_name |-> "",
     fetch |-> "fail", saves |-> 0, back |-> "ok"]

\* what the details panel of a carousel result can show
CarouselDetails ==
    {[UnreadResult EXCEPT !.meta = "ok", !.priority = p] : p \in Priorities}
    \cup {[UnreadResult EXCEPT !.meta = "ok", !.priority = p, !.hasRetailer = TRUE,
                               !.retailer_name = r] : p \in Priorities, r \in RetailerNames}

\* what the details panel of a search result of download_standard_asset can show
StandardDetails ==
    {[UnreadResult EXCEPT !.meta = "ok"]}
    \cup {[UnreadResult EXCEPT !.meta = "ok", !.hasRetailer = TRUE, !.retailer_name = r] :
             r \in RetailerNames}

\* how the download of a result can end, for a list of n ASINs
DownloadEnds(c, n) ==
    {[c EXCEPT !.fetch = "fail"]}
    \cup {[c EXCEPT !.fetch = "ok", !.saves = s] : s \in 0..n}

AppStatusInit ==
    [running |-> FALSE, total_items |-> 0, completed_items |-> 0, failed_items |-> <<>>]

CarInit ==
    /\ asins \in AsinLists
    /\ phase = "enter"
    /\ num_items = 0
    /\ grid = <<>>
    /\ pos = 0
    /\ downloads_succeeded = 0
    /\ max_sequence_num = 0
    /\ downloaded_priorities = {}
    /\ nutrition_sequence = 0
    /\ tried = {}
    /\ kept = {}
    /\ saved = <<>>
    /\ gtin_result = <<>>

CarIdle ==
    /\ asins = <<>>
    /\ phase = ""
    /\ num_items = 0
    /\ grid = <<>>
    /\ pos = 0
    /\ downloads_succeeded = 0
    /\ max_sequence_num = 0
    /\ downloaded_priorities = {}
    /\ nutrition_sequence = 0
    /\ tried = {}
    /\ kept = {}
    /\ saved = <<>>
    /\ gtin_result = <<>>

\* lines 465-471: create_asin_folders is outside the try of process_single_gtin
GtinEnter ==
    /\ phase = "enter"
    /\ \E folders \in {"ok", "oserr"} :
          phase' = IF folders = "ok" THEN "carousel_start" ELSE "raised"
    /\ UNCHANGED <<asins, num_items, grid, pos, downloads_succeeded, max_sequence_num,
                   downloaded_priorities, nutrition_sequence, tried, kept, saved,
                   gtin_result>>
    /\ UNCHANGED <<orchVars, selVars, itemVars, appVars, parseVars, logVars>>

\* lines 250-292: the running check, the search, the count of results.  The
\* early returns (0, 0) and the outer except leave the counters at 0.
CarouselEnter ==
    /\ phase = "carousel_start"
    /\ \/ /\ ~app_status.running
          /\ num_items' = 0
       \/ /\ app_status.running
          /\ \E found \in 0..MaxGrid : num_items' = found
    /\ phase' = "carousel"
    /\ UNCHANGED <<asins, grid, pos, downloads_succeeded, max_sequence_num,
                   downloaded_priorities, nutrition_sequence, tried, kept, saved,
                   gtin_result>>
    /\ UNCHANGED <<orchVars, selVars, itemVars, appVars, parseVars, logVars>>

\* lines 294-363: one iteration of the carousel loop
CarouselItem ==
    /\ phase = "carousel"
    /\ pos < num_items
    /\ app_status.running
    /\ pos' = pos + 1
    /\ \E details \in CarouselDetails \cup {UnreadResult} :
          LET should_download ==
                  /\ details.meta = "ok"
                  /\ ~CarouselRetailerSkips(details)
                  /\ details.priority \notin downloaded_priorities
          IN  \E c \in (IF should_download THEN DownloadEnds(details, Len(asins))
                        ELSE {details}) :
                 LET save == save_to_all_asin_folders(<<"carousel", pos + 1>>, asins, "",
                                                      c.priority, c.saves)
                     ok == c.fetch = "ok" /\ ~save.raised
                 IN  /\ grid' = Append(grid, c)
                     /\ max_sequence_num' = IF should_download
                                            THEN Max2(max_sequence_num, c.priority)
                                            ELSE max_sequence_num
                     /\ tried' = IF should_download THEN tried \cup {pos + 1} ELSE tried
                     /\ saved' = IF should_download /\ c.fetch = "ok"
                                 THEN <<[save |-> save, sequence_num |-> c.priority]>>
                                 ELSE <<>>
                     /\ downloads_succeeded' = IF should_download /\ ok
                                               THEN downloads_succeeded + 1
                                               ELSE downloads_succeeded
                     /\ downloaded_priorities' = IF should_download /\ ok
                                                 THEN downloaded_priorities \cup {c.priority}
                                                 ELSE downloaded_priorities
                     /\ kept' = IF should_download /\ ok THEN kept \cup {pos + 1} ELSE kept
    /\ UNCHANGED <<asins, phase, num_items, nutrition_sequence, gtin_result>>
    /\ UNCHANGED <<orchVars, selVars, itemVars, appVars, parseVars, logVars>>

\* the loop ends (line 294) or breaks (line 295); line 367 returns the
\* counters and lines 475-486 of process_single_gtin set nutrition_sequence
CarouselReturn ==
    /\ phase = "carousel"
    /\ pos = num_items \/ ~app_status.running
    /\ nutrition_sequence' = NextSequence(max_sequence_num)
    /\ phase' = "standard_start"
    /\ saved' = <<>>
    /\ UNCHANGED <<asins, num_items, grid, pos, downloads_succeeded, max_sequence_num,
                   downloaded_priorities, tried, kept, gtin_result>>
    /\ UNCHANGED <<orchVars, selVars, itemVars, appVars, parseVars, logVars>>

\* lines 491-496: the return value of process_single_gtin
GtinReturns(nutrition_success) == <<downloads_succeeded > 0 \/ nutrition_success>>

\* download_standard_asset without the running check of line 372: the search
\* is made whatever the flag says
StandardEnterUnchecked ==
    /\ phase = "standard_start"
    /\ grid' = <<>>
    /\ pos' = 0
    /\ tried' = {}
    /\ kept' = {}
    /\ \E found \in 0..MaxGrid :
          /\ num_items' = found
          /\ phase' = IF found = 0 THEN "returned" ELSE "standard"
          /\ gtin_result' = IF found = 0 THEN GtinReturns(FALSE) ELSE gtin_result
    /\ max_sequence_num' = 0
    /\ downloaded_priorities' = {}
    /\ UNCHANGED <<asins, downloads_succeeded, nutrition_sequence, saved>>
    /\ UNCHANGED <<orchVars, selVars, itemVars, appVars, parseVars, logVars>>

\* lines 371-389: the running check, the search, the count of results; the
\* results examined from here on are those of this search, and the locals of
\* download_carousel_images are gone (downloads_succeeded stands for
\* carousel_downloads)
StandardEnter ==
    /\ phase = "standard_start"
    /\ grid' = <<>>
    /\ pos' = 0
    /\ tried' = {}
    /\ kept' = {}
    /\ \/ /\ ~app_status.running
          /\ num_items' = 0
          /\ phase' = "returned"
          /\ gtin_result' = GtinReturns(FALSE)
       \/ /\ app_status.running
          /\ \E found \in 0..MaxGrid :
                /\ num_items' = found
                /\ phase' = IF found = 0 THEN "returned" ELSE "standard"
                /\ gtin_result' = IF found = 0 THEN GtinReturns(FALSE) ELSE gtin_result
    /\ max_sequence_num' = 0
    /\ downloaded_priorities' = {}
    /\ UNCHANGED <<asins, downloads_succeeded, nutrition_sequence, saved>>
    /\ UNCHANGED <<orchVars, selVars, itemVars, appVars, parseVars, logVars>>

\* lines 391-452: one iteration of the loop of download_standard_asset
StandardItem ==
    /\ phase = "standard"
    /\ pos < num_items
    /\ app_status.running
    /\ pos' = pos + 1
    /\ \E details \in StandardDetails \cup {UnreadResult} :
          LET should_download == details.meta = "ok" /\ ~StandardRetailerSkips(details)
          IN  \E c \in (IF should_download
                        THEN UNION {{e, [e EXCEPT !.back = "err"]} :
                                       e \in DownloadEnds(details, Len(asins))}
                        ELSE {details}) :
                 LET save == save_to_all_asin_folders(<<"standard", pos + 1>>, asins, "Main",
                                                      nutrition_sequence, c.saves)
                     ok == c.fetch = "ok" /\ ~save.raised
                 IN  /\ c.back = "err" => (should_download /\ ok)
                     /\ grid' = Append(grid, c)
                     /\ tried' = IF should_download THEN tried \cup {pos + 1} ELSE tried
                     /\ saved' = IF should_download /\ c.fetch = "ok"
                                 THEN <<[save |-> save, sequence_num |-> nutrition_sequence]>>
                                 ELSE <<>>
                     /\ kept' = IF should_download /\ ok THEN kept \cup {pos + 1} ELSE kept
                     /\ phase' = IF should_download /\ ok /\ c.back = "ok"
                                 THEN "returned" ELSE phase
                     /\ gtin_result' = IF should_download /\ ok /\ c.back = "ok"
                                       THEN GtinReturns(TRUE) ELSE gtin_result
    /\ UNCHANGED <<asins, num_items, downloads_succeeded, max_sequence_num,
                   downloaded_priorities, nutrition_sequence>>
    /\ UNCHANGED <<orchVars, selVars, itemVars, appVars, parseVars, logVars>>

\* line 392 (stopped) or lines 454-455 (no suitable result): return False
StandardReturn ==
    /\ phase = "standard"
    /\ pos = num_items \/ ~app_status.running
    /\ phase' = "returned"
    /\ gtin_result' = GtinReturns(FALSE)
    /\ saved' = <<>>
    /\ UNCHANGED <<asins, num_items, grid, pos, downloads_succeeded, max_sequence_num,
                   downloaded_priorities, nutrition_sequence, tried, kept>>
    /\ UNCHANGED <<orchVars, selVars, itemVars, appVars, parseVars, logVars>>

\* POST /stop of the browser variant while the GTIN is processed
CarStop ==
    /\ phase \notin {"returned", "raised"}
    /\ app_status.running
    /\ app_status' = [app_status EXCEPT !.running = FALSE]
    /\ app_reply' = [request |-> "stop", status |-> 200]
    /\ UNCHANGED <<app_runs, app_workers>>
    /\ UNCHANGED <<orchVars, selVars, itemVars, carVars, parseVars, logVars>>

\* the GTIN whose processing the call is
CarGtin == "00012345678905"

\* lines 541-546 of process_all_items for this call: a GTIN whose call returned
\* False is a failed one (reported by line 558), and the item is counted
GtinCounted ==
    /\ phase = "returned"
    /\ app_status.completed_items = 0
    /\ app_status' = [app_status EXCEPT
                         !.completed_items = 1,
                         !.failed_items = IF gtin_result = <<FALSE>>
                                          THEN <<CarGtin>> ELSE <<>>]
    /\ UNCHANGED <<app_reply, app_runs, app_workers>>
    /\ UNCHANGED <<orchVars, selVars, itemVars, carVars, parseVars, logVars>>

process_single_gtin ==
    \/ GtinEnter
    \/ CarouselEnter
    \/ CarouselItem
    \/ CarouselReturn
    \/ StandardEnter
    \/ StandardItem
    \/ StandardReturn

CarNext == process_single_gtin \/ CarStop \/ GtinCounted

(***************************************************************************)
(* parse_search_ids_from_file of src/Single-exe.py.  The sheet is what     *)
(* pandas reads with dtype=str:                                            *)
(*   filename   the name of the uploaded file                              *)
(*   readable   FALSE: pd.read_excel / pd.read_csv raises                  *)
(*   columns    the header names as they stand in the file                 *)
(*   rows       the rows; a cell is a string, or NaN for an empty cell;    *)
(*              bmn, article_id, gtin are the cells under the columns that *)
(*              line 302-304 name 'BMN', 'Article ID', 'GTIN' (read only   *)
(*              when that column exists)                                   *)
(***************************************************************************)
NaN == "<NaN>"

\* str(c).strip() of a header name
StripHeader(c) == IF c = " BMN " THEN "BMN" ELSE c

\* lines 302-304: the names of df.columns
HeaderName(c) == IF StripHeader(c) = "ArticleID" THEN "Article ID" ELSE StripHeader(c)

df_columns(sheet) == {HeaderName(c) : c \in sheet.columns}

\* str(value) of a cell
CellStr(cell) == IF cell = NaN THEN "nan" ELSE cell

\* .strip() of a cell text
StripCell(text) ==
    IF text = "100 " THEN "100" ELSE IF text = " " THEN "" ELSE text

\* row.get(column, ''): the cell, or '' when the sheet has no such column
RowGet(sheet, row, column) ==
    IF column \notin df_columns(sheet) THEN ""
    ELSE CASE column = "BMN"        -> row.bmn
           [] column = "Article ID" -> row.article_id
           [] OTHER                 -> row.gtin

\* every mode asks for the BMN column only
required_bmn_only(retailer) == <<"BMN">>

\* lines 307-310
required_cols(retailer) ==
    CASE retailer = "Sobeys"    -> <<"BMN", "Article ID">>
      [] retailer = "Instacart" -> <<"BMN", "GTIN">>
      [] retailer = "Both"      -> <<"BMN", "Article ID", "GTIN">>
      [] OTHER                  -> <<"BMN">>

\* df[column].dropna().value_counts(), then the values counted more than once
DuplicateValues(sheet, column) ==
    LET cell(j) == RowGet(sheet, sheet.rows[j], column)
        present == {j \in DOMAIN sheet.rows : cell(j) # NaN}
    IN  {cell(j) : j \in {k \in present : \E m \in present : m # k /\ cell(m) = cell(k)}}

\* lines 318-327: the duplicates dict, one key per column the sheet has
DuplicateReport(sheet) ==
    [key \in {k \in {"duplicate_bmns", "duplicate_article_ids", "duplicate_gtins"} :
                 (CASE k = "duplicate_bmns"        -> "BMN"
                    [] k = "duplicate_article_ids" -> "Article ID"
                    [] OTHER                       -> "GTIN") \in df_columns(sheet)} |->
        DuplicateValues(sheet, CASE key = "duplicate_bmns"        -> "BMN"
                                 [] key = "duplicate_article_ids" -> "Article ID"
                                 [] OTHER                         -> "GTIN")]

\* lines 336-340: the item of one row; a key the mode does not ask for is
\* absent from the dict, which reads as ""
RowItem(sheet, row, required) ==
    [bmn |-> StripCell(CellStr(RowGet(sheet, row, "BMN"))),
     article_id |-> IF "Article ID" \in Range(required)
                    THEN StripCell(CellStr(RowGet(sheet, row, "Article ID"))) ELSE "",
     gtin |-> IF "GTIN" \in Range(required)
              THEN StripCell(CellStr(RowGet(sheet, row, "GTIN"))) ELSE ""]

RECURSIVE ExtractEveryRow(_, _, _, _)
\* the loop without the seen_bmns test
ExtractEveryRow(sheet, rows_left, required, seen_bmns) ==
    IF rows_left = <<>> THEN <<>>
    ELSE LET item == RowItem(sheet, Head(rows_left), required)
         IN  IF item.bmn = "" \/ item.bmn = "nan"
             THEN ExtractEveryRow(sheet, Tail(rows_left), required, seen_bmns)
             ELSE <<item>> \o ExtractEveryRow(sheet, Tail(rows_left), required,
                                              seen_bmns \cup {item.bmn})

RECURSIVE ExtractRowsUntilBlank(_, _, _, _)
\* the loop left at the first row without a BMN
ExtractRowsUntilBlank(sheet, rows_left, required, seen_bmns) ==
    IF rows_left = <<>> THEN <<>>
    ELSE LET item == RowItem(sheet, Head(rows_left), required)
         IN  IF item.bmn = "" \/ item.bmn = "nan"
             THEN <<>>
             ELSE IF item.bmn \in seen_bmns
             THEN ExtractRowsUntilBlank(sheet, Tail(rows_left), required, seen_bmns)
             ELSE <<item>> \o ExtractRowsUntilBlank(sheet, Tail(rows_left), required,
                                                    seen_bmns \cup {item.bmn})

RECURSIVE ExtractRows(_, _, _, _)
\* lines 330-343: the loop over df.iterrows()
ExtractRows(sheet, rows_left, required, seen_bmns) ==
    IF rows_left = <<>> THEN <<>>
    ELSE LET item == RowItem(sheet, Head(rows_left), required)
         IN  IF item.bmn = "" \/ item.bmn = "nan" \/ item.bmn \in seen_bmns
             THEN ExtractRows(sheet, Tail(rows_left), required, seen_bmns)
             ELSE <<item>> \o ExtractRows(sheet, Tail(rows_left), required,
                                          seen_bmns \cup {item.bmn})

NoDuplicates == [key \in {} |-> {}]

\* the return value: (search_data, duplicates)
parse_search_ids_from_file(sheet, retailer) ==
    IF ~sheet.readable
    THEN [search_data |-> <<>>, duplicates |-> NoDuplicates]
    ELSE IF ~(Range(required_cols(retailer)) \subseteq df_columns(sheet))
    THEN [search_data |-> <<>>, duplicates |-> NoDuplicates]
    ELSE [search_data |-> ExtractRows(sheet, sheet.rows, required_cols(retailer), {}),
          duplicates |-> DuplicateReport(sheet)]

\* allowed_file: the extension after the last dot, lower-cased
allowed_file(filename) ==
    filename \in {"ids.csv", "ids.xlsx", "ids.XLS", "ids.txt"}

(***************************************************************************)
(* One upload handled by execute_download on an idle server.               *)
(***************************************************************************)
\* the BMN cells of the sheets: empty (read as NaN), blank, and texts
BmnCells == {NaN, " ", "100", "100 ", "200"}

\* the Article ID cell of row number j: an id of its own, or empty
ArticleCell(j, filled) == IF filled THEN "A" \o ToString(j) ELSE NaN

\* the GTIN cell of row number j
GtinCell(j) == "G" \o ToString(j)

Headers ==
    { {"BMN", "Article ID", "GTIN"},
      {" BMN ", "ArticleID", "GTIN"},
      {"BMN", "Article ID"},
      {"BMN", "GTIN"},
      {"Article ID", "GTIN"},
      {"bmn", "Article ID", "GTIN"} }

Sheet(header, bmn_cells, article_filled) ==
    [filename |-> "ids.xlsx", readable |-> TRUE, columns |-> header,
     rows |-> [j \in DOMAIN bmn_cells |->
                  [bmn |-> bmn_cells[j], article_id |-> ArticleCell(j, article_filled[j]),
                   gtin |-> GtinCell(j)]]]

\* a file pandas cannot read, and a file of a type that is not allowed
UnreadableSheet ==
    [filename |-> "ids.csv", readable |-> FALSE, columns |-> {}, rows |-> <<>>]

RefusedSheet ==
    [filename |-> "ids.exe", readable |-> TRUE, columns |-> {"BMN", "Article ID", "GTIN"},
     rows |-> <<[bmn |-> "100", article_id |-> "A1", gtin |-> GtinCell(1)]>>]

ParseInit ==
    /\ \/ \E n \in 0..MaxRows, header \in Headers :
             \E bmn_cells \in [1..n -> BmnCells], article_filled \in [1..n -> BOOLEAN] :
                table = Sheet(header, bmn_cells, article_filled)
       \/ table \in {UnreadableSheet, RefusedSheet}
    /\ retailer_mode \in RetailerChoices
    /\ parsed = <<>>

\* lines 359-400 for a request with a file, no run being active: the answer,
\* and for an accepted request the new execution_status and the thread
ExecuteUpload ==
    /\ parsed = <<>>
    /\ ~running
    /\ LET got == IF allowed_file(table.filename)
                  THEN parse_search_ids_from_file(table, retailer_mode)
                  ELSE [search_data |-> <<>>, duplicates |-> NoDuplicates]
       IN  /\ parsed' = <<got>>
           /\ IF got.search_data = <<>>
              THEN /\ response' = 400
                   /\ UNCHANGED <<running, total_items, completed_items, not_in_mojo_bmns,
                                  restricted_bmns, runs, workers>>
              ELSE /\ response' = 200
                   /\ running' = TRUE
                   /\ total_items' = Len(got.search_data)
                   /\ completed_items' = 0
                   /\ not_in_mojo_bmns' = <<>>
                   /\ restricted_bmns' = <<>>
                   /\ runs' = runs + 1
                   /\ workers' = [workers EXCEPT ![runs + 1] =
                                     [IdleWorker EXCEPT !.pc = "start",
                                                        !.n = Len(got.search_data),
                                                        !.retailer = retailer_mode]]
    /\ UNCHANGED <<files, table, retailer_mode>>
    /\ UNCHANGED <<selVars, itemVars, appVars, carVars, logVars>>

ParseNext == ExecuteUpload

AppIdle ==
    /\ app_status = AppStatusInit
    /\ app_reply = [request |-> "", status |-> 0]
    /\ app_runs = 0
    /\ app_workers = <<>>

ParseIdle ==
    /\ table = UnreadableSheet
    /\ retailer_mode = ""
    /\ parsed = <<>>

LogIdle ==
    /\ logs = <<>>
    /\ logged = 0

(***************************************************************************)
(* The specifications.                                                     *)
(*   Spec      the batch orchestrator: requests and worker threads         *)
(*   SpecSel   one call of a retailer selector on any candidate list       *)
(*   SpecItem  one call of process_single_bmn on any BMN of the catalog    *)
(*   SpecCar   one call of process_single_gtin of the browser variant      *)
(*   SpecParse one upload handled by execute_download on an idle server    *)
(*   SpecApp   the runs of the browser variant: requests and threads       *)
(*   SpecLog   the log list under calls of the logger and resets           *)
(***************************************************************************)
vars == <<orchVars, selVars, itemVars, appVars, carVars, parseVars, logVars>>

Init == OrchInit /\ SelIdle /\ ItemIdle /\ AppIdle /\ CarIdle /\ ParseIdle /\ LogIdle

Next == OrchNext

Spec == Init /\ [][Next]_vars

InitSel == OrchInit /\ SelInit /\ ItemIdle /\ AppIdle /\ CarIdle /\ ParseIdle /\ LogIdle

NextSel == SelNext

SpecSel == InitSel /\ [][NextSel]_vars

InitItem == OrchInit /\ SelIdle /\ ItemInit /\ AppIdle /\ CarIdle /\ ParseIdle /\ LogIdle

NextItem == ItemNext

SpecItem == InitItem /\ [][NextItem]_vars

InitParse == OrchInit /\ SelIdle /\ ItemIdle /\ AppIdle /\ CarIdle /\ ParseInit /\ LogIdle

NextParse == ParseNext

SpecParse == InitParse /\ [][NextParse]_vars

\* a GTIN is processed while a run of the browser variant is active
InitCar ==
    /\ OrchInit /\ SelIdle /\ ItemIdle /\ ParseIdle /\ LogIdle
    /\ app_status = [AppStatusInit EXCEPT !.running = TRUE]
    /\ app_reply = [request |-> "execute", status |-> 200]
    /\ app_runs = 0
    /\ app_workers = <<>>
    /\ CarInit

NextCar == CarNext

SpecCar == InitCar /\ [][NextCar]_vars

(***************************************************************************)
(* A run of the browser variant (src/App.py): POST /execute, POST /stop    *)
(* and the background thread of run_download_task.  Identifiers are        *)
(* sequences of one-character strings, so that the lookup key is computed  *)
(* as the code computes it.                                                *)
(***************************************************************************)
\* an input GTIN of 14 digits whose UPC is in the catalogs
GtinKnown == <<"0", "0", "0", "1", "2", "3", "4", "5", "6", "7", "8", "9", "0", "5">>

\* another one, listed once, with more leading zeros than its UPC
GtinFresh == <<"0", "0", "0", "0", "0", "3", "3", "3", "3", "3", "3", "3", "3", "1">>

\* an input GTIN of 14 digits that no catalog holds
GtinUnknown == <<"0", "0", "0", "9", "9", "9", "9", "9", "9", "9", "9", "9", "9", "4">>

\* an input shorter than 12 characters
GtinShort == <<"1", "2", "3">>

\* a cell or form field holding one space
GtinSpace == <<" ">>

\* the values of the gtin field of the form and of the gtin column
InputGtins == {GtinKnown, GtinFresh, GtinUnknown, GtinShort, GtinSpace}

RECURSIVE LStrip(_, _)
\* str.lstrip(ch)
LStrip(s, ch) == IF s # <<>> /\ Head(s) = ch THEN LStrip(Tail(s), ch) ELSE s

RECURSIVE RStrip(_, _)
\* str.rstrip(ch)
RStrip(s, ch) ==
    IF s # <<>> /\ s[Len(s)] = ch THEN RStrip(SubSeq(s, 1, Len(s) - 1), ch) ELSE s

\* str.strip() on the characters of the model
StripChars(s) == RStrip(LStrip(s, " "), " ")

\* lines 716-718: the input GTIN without its last character and without
\* leading zeros; <<>> wraps "no key" (the input is too short)
LookupKeyOf(text) ==
    IF Len(text) >= 12 THEN <<LStrip(SubSeq(text, 1, Len(text) - 1), "0")>> ELSE <<>>

RECURSIVE RemoveDotZero(_)
\* str.replace('.0', '')
RemoveDotZero(s) ==
    IF Len(s) < 2 THEN s
    ELSE IF s[1] = "." /\ s[2] = "0" THEN RemoveDotZero(SubSeq(s, 3, Len(s)))
    ELSE <<s[1]>> \o RemoveDotZero(Tail(s))

\* line 620: upc_str
UpcStr(upc) == StripChars(RemoveDotZero(upc))

\* the key of a UPC with its leading zeros kept
UpcKeyWithZeros(upc_str) ==
    IF Len(upc_str) >= 12 THEN <<SubSeq(upc_str, 1, Len(upc_str) - 1)>> ELSE <<>>

\* lines 624-626: the UPC without its last character and without leading
\* zeros; <<>> wraps "no key" (the UPC is too short)
UpcLookupKey(upc_str) ==
    IF Len(upc_str) >= 12 THEN <<LStrip(SubSeq(upc_str, 1, Len(upc_str) - 1), "0")>>
    ELSE <<>>

\* str.strip().title() of the status cells of the model
StatusTitle(status) ==
    CASE status = "active "  -> "Active"
      [] status = "INACTIVE" -> "Inactive"
      [] OTHER               -> status

valid_statuses == {"Active", "Inactive", "Pending Graveyard"}

\* the rows of the two catalog files DayOne delivers
CatalogRows ==
    {[upc |-> <<"0", "1", "2", "3", "4", "5", "6", "7", "8", "9", "0", "5">>,
      asin |-> "B1", status |-> "active "],
     [upc |-> <<"0", "1", "2", "3", "4", "5", "6", "7", "8", "9", "0", "5", ".", "0">>,
      asin |-> "B2", status |-> "INACTIVE"],
     [upc |-> <<"0", "9", "9", "9", "9", "9", "9", "9", "9", "9", "9", "4">>,
      asin |-> "B5", status |-> "Deleted"],
     [upc |-> <<"0", "0", "0", "3", "3", "3", "3", "3", "3", "3", "3", "1", " ">>,
      asin |-> "B3", status |-> "Active"],
     [upc |-> <<"4", "5", "6">>, asin |-> "B4", status |-> "Active"]}

\* lines 616-629: the rows that reach the map
MappedRows(rows) ==
    {row \in rows :
        /\ StatusTitle(row.status) \in valid_statuses
        /\ UpcLookupKey(UpcStr(row.upc)) # <<>>
        /\ UpcLookupKey(UpcStr(row.upc))[1] # <<>>
        /\ row.asin # ""}

\* _process_downloaded_files: lookup key -> set of ASINs
process_downloaded_files(rows) ==
    [lookup_key \in {UpcLookupKey(UpcStr(row.upc))[1] : row \in MappedRows(rows)} |->
        {row.asin : row \in {r \in MappedRows(rows) :
                                UpcLookupKey(UpcStr(r.upc))[1] = lookup_key}}]

\* what download_and_process_catalogs_async ends with: the map of the two
\* files, {} after an error of the download (line 685), or the ValueError
\* of line 643
CatalogOutcomes == {"ok", "empty", "raises"}

\* the orders in which a set of ASINs is iterated (line 728)
AsinOrders(S) ==
    {order \in UNION {[1..n -> S] : n \in {Cardinality(S)}} : Range(order) = S}

\* lines 755: the expanded items with an ASIN and lookup_status 'success'
items_with_asins(expanded_items) ==
    SelectSeq(expanded_items, LAMBDA item : item.asin # "" /\ item.lookup_status = "success")

RECURSIVE GroupNewestFirst(_, _)
\* gtin_groups with each new GTIN put in front of the earlier ones
GroupNewestFirst(items_to_process, groups) ==
    IF items_to_process = <<>> THEN groups
    ELSE LET item == Head(items_to_process)
             at == {k \in DOMAIN groups : groups[k].gtin = item.gtin}
         IN  GroupNewestFirst(Tail(items_to_process),
                IF at = {}
                THEN <<[gtin |-> item.gtin, asins |-> <<item.asin>>]>> \o groups
                ELSE [groups EXCEPT ![CHOOSE k \in at : TRUE].asins = Append(@, item.asin)])

RECURSIVE GroupByGtin(_, _)
\* lines 505-508: gtin_groups in the order the GTINs are first met, as a
\* sequence of [gtin, asins]
GroupByGtin(items_to_process, groups) ==
    IF items_to_process = <<>> THEN groups
    ELSE LET item == Head(items_to_process)
             at == {k \in DOMAIN groups : groups[k].gtin = item.gtin}
         IN  GroupByGtin(Tail(items_to_process),
                IF at = {}
                THEN Append(groups, [gtin |-> item.gtin, asins |-> <<item.asin>>])
                ELSE [groups EXCEPT ![CHOOSE k \in at : TRUE].asins = Append(@, item.asin)])

\* the order of the characters of the model in Python's string comparison
CharRank(c) ==
    CASE c = " " -> 0 [] c = "0" -> 1 [] c = "1" -> 2 [] c = "2" -> 3 [] c = "3" -> 4
      [] c = "4" -> 5 [] c = "5" -> 6 [] c = "6" -> 7 [] c = "7" -> 8 [] c = "8" -> 9
      [] OTHER -> 10

RECURSIVE StrLess(_, _)
\* s < t for two strings
StrLess(s, t) ==
    IF t = <<>> THEN FALSE
    ELSE IF s = <<>> THEN TRUE
    ELSE IF Head(s) # Head(t) THEN CharRank(Head(s)) < CharRank(Head(t))
    ELSE StrLess(Tail(s), Tail(t))

RECURSIVE SortedList(_)
\* sorted(list(failed_gtins)), line 558
SortedList(S) ==
    IF S = {} THEN <<>>
    ELSE LET least == CHOOSE g \in S : \A h \in S \ {g} : StrLess(g, h)
         IN  <<least>> \o SortedList(S \ {least})

\* a thread that was not started: the locals of run_async, of
\* lookup_asins_from_files and of process_all_items
\*   pc             where the thread is: "catalogs" (line 742), "lookup" (the
\*                  head of the loop of line 700), "lookup_done" (line 751),
\*                  "launch" (line 517), "loop" (the head of the loop of line
\*                  527), "item" (inside process_single_gtin), "close" (line
\*                  554), "summary" (line 558), "finally" (line 765), "done"
\*   n              len(items)
\*   items          the GTINs of the items the lookup has taken, in order
\*   i              the items taken by the loop the thread is in
\*   lookup_key     <<>> while the local is unbound, then <<its value>>
\*   browser        "none", "open" or "closed": the persistent context
\*   summary        <<>>, then the payload of the execution_summary event
\*   exit           how the thread came to its end
AppIdleWorker ==
    [pc |-> "idle", n |-> 0, items |-> <<>>, i |-> 0, lookup_key |-> <<>>,
     expanded_items |-> <<>>, gtin_groups |-> <<>>, failed_gtins |-> {},
     browser |-> "none", summary |-> <<>>, exit |-> "none"]

AppRuns == DOMAIN app_workers

\* POST /execute of the browser variant, lines 778-813
AppExecuteRejected ==
    /\ app_status.running
    /\ app_reply' = [request |-> "execute", status |-> 400]
    /\ UNCHANGED <<app_status, app_runs, app_workers>>
    /\ UNCHANGED <<orchVars, selVars, itemVars, carVars, parseVars, logVars>>

\* no GTIN in the form (line 795), or a file that parse_file reads to []
AppExecuteNoData ==
    /\ ~app_status.running
    /\ app_reply' = [request |-> "execute", status |-> 400]
    /\ UNCHANGED <<app_status, app_runs, app_workers>>
    /\ UNCHANGED <<orchVars, selVars, itemVars, carVars, parseVars, logVars>>

AppExecuteAccepted ==
    /\ ~app_status.running
    /\ app_runs < MaxAppRuns
    /\ \E n \in UploadLengths :
          app_workers' = Append(app_workers,
                                [AppIdleWorker EXCEPT !.pc = "catalogs", !.n = n])
    /\ app_status' = [running |-> TRUE, total_items |-> 0, completed_items |-> 0,
                      failed_items |-> <<>>]
    /\ app_runs' = app_runs + 1
    /\ app_reply' = [request |-> "execute", status |-> 200]
    /\ UNCHANGED <<orchVars, selVars, itemVars, carVars, parseVars, logVars>>

app_execute_download == AppExecuteRejected \/ AppExecuteNoData \/ AppExecuteAccepted

\* POST /stop of the browser variant, lines 815-821
AppStopAccepted ==
    /\ app_status.running
    /\ app_status' = [app_status EXCEPT !.running = FALSE]
    /\ app_reply' = [request |-> "stop", status |-> 200]
    /\ UNCHANGED <<app_runs, app_workers>>
    /\ UNCHANGED <<orchVars, selVars, itemVars, carVars, parseVars, logVars>>

\* a stop request with no run active that answers as if one had been
AppStopQuiet ==
    /\ ~app_status.running
    /\ app_reply' = [request |-> "stop", status |-> 200]
    /\ UNCHANGED <<app_status, app_runs, app_workers>>
    /\ UNCHANGED <<orchVars, selVars, itemVars, carVars, parseVars, logVars>>

AppStopRejected ==
    /\ ~app_status.running
    /\ app_reply' = [request |-> "stop", status |-> 400]
    /\ UNCHANGED <<app_status, app_runs, app_workers>>
    /\ UNCHANGED <<orchVars, selVars, itemVars, carVars, parseVars, logVars>>

app_stop_execution == AppStopAccepted \/ AppStopRejected

\* the thread ends where it leaves the try block, the finally clause not run
AppLeaveUnfinished(w, exit) ==
    app_workers' = [app_workers EXCEPT ![w].pc = "done", ![w].exit = exit]

\* the thread leaves the try block for the finally clause of line 765
AppLeave(w, exit) ==
    app_workers' = [app_workers EXCEPT ![w].pc = "finally", ![w].exit = exit]

\* lines 741-746: step 1, the catalogs
AppCatalogs(w) ==
    /\ app_workers[w].pc = "catalogs"
    /\ \E catalogs \in CatalogOutcomes :
          CASE catalogs = "ok"     -> app_workers' = [app_workers EXCEPT ![w].pc = "lookup"]
            [] catalogs = "empty"  -> AppLeave(w, "no_catalog")
            [] catalogs = "raises" -> AppLeave(w, "exception")
    /\ UNCHANGED <<app_status, app_reply, app_runs>>
    /\ UNCHANGED <<orchVars, selVars, itemVars, carVars, parseVars, logVars>>

\* lines 700-729: one turn of the loop of lookup_asins_from_files
AppLookup(w) ==
    /\ app_workers[w].pc = "lookup"
    /\ LET me == app_workers[w]
           gtin_to_asins_map == process_downloaded_files(CatalogRows)
       IN  \/ /\ me.i = me.n \/ ~app_status.running
              /\ app_workers' = [app_workers EXCEPT ![w].pc = "lookup_done"]
           \/ /\ me.i < me.n
              /\ app_status.running
              /\ \E gtin_input_original \in InputGtins :
                    LET gtin_input_str == StripChars(gtin_input_original)
                        taken == [me EXCEPT !.i = @ + 1,
                                            !.items = Append(@, gtin_input_original)]
                        lookup_key == IF Len(gtin_input_str) >= 12
                                      THEN LookupKeyOf(gtin_input_str)
                                      ELSE me.lookup_key
                        found_asins ==
                            IF /\ Len(gtin_input_str) >= 12
                               /\ lookup_key[1] \in DOMAIN gtin_to_asins_map
                            THEN gtin_to_asins_map[lookup_key[1]]
                            ELSE {}
                    IN  CASE gtin_input_str = <<>> ->
                               app_workers' = [app_workers EXCEPT ![w] = taken]
                          [] gtin_input_str # <<>> /\ found_asins = {} /\ lookup_key = <<>> ->
                               \* line 724 reads a local that was never bound
                               app_workers' = [app_workers EXCEPT ![w] =
                                   [taken EXCEPT !.pc = "finally", !.exit = "exception"]]
                          [] gtin_input_str # <<>> /\ found_asins = {} /\ lookup_key # <<>> ->
                               app_workers' = [app_workers EXCEPT ![w] =
                                   [taken EXCEPT
                                      !.lookup_key = lookup_key,
                                      !.expanded_items = Append(@,
                                          [gtin |-> gtin_input_original, asin |-> "",
                                           lookup_status |-> "no_asin_found"])]]
                          [] OTHER ->
                               \E order \in AsinOrders(found_asins) :
                                  app_workers' = [app_workers EXCEPT ![w] =
                                      [taken EXCEPT
                                         !.lookup_key = lookup_key,
                                         !.expanded_items = @ \o
                                             [k \in DOMAIN order |->
                                                 [gtin |-> gtin_input_original,
                                                  asin |-> order[k],
                                                  lookup_status |-> "success"]]]]
    /\ UNCHANGED <<app_status, app_reply, app_runs>>
    /\ UNCHANGED <<orchVars, selVars, itemVars, carVars, parseVars, logVars>>

\* lines 751-761 and 503-512: the two early returns, or the start of
\* process_all_items
AppLookupDone(w) ==
    /\ app_workers[w].pc = "lookup_done"
    /\ LET me == app_workers[w]
           gtin_groups == GroupByGtin(items_with_asins(me.expanded_items), <<>>)
       IN  IF me.expanded_items = <<>>
           THEN AppLeave(w, "no_items") /\ UNCHANGED app_status
           ELSE IF items_with_asins(me.expanded_items) = <<>>
           THEN AppLeave(w, "no_asins") /\ UNCHANGED app_status
           ELSE /\ app_workers' = [app_workers EXCEPT ![w].pc = "launch", ![w].i = 0,
                                                      ![w].gtin_groups = gtin_groups]
                /\ app_status' = [app_status EXCEPT !.total_items = Len(gtin_groups),
                                                    !.completed_items = 0]
    /\ UNCHANGED <<app_reply, app_runs>>
    /\ UNCHANGED <<orchVars, selVars, itemVars, carVars, parseVars, logVars>>

\* lines 514-525: the browser is launched, or launching raises and the
\* except clause of line 555 takes over
AppLaunch(w) ==
    /\ app_workers[w].pc = "launch"
    /\ \E launched \in BOOLEAN :
          app_workers' = IF launched
                         THEN [app_workers EXCEPT ![w].pc = "loop", ![w].browser = "open"]
                         ELSE [app_workers EXCEPT ![w].pc = "summary",
                                                  ![w].exit = "browser_error"]
    /\ UNCHANGED <<app_status, app_reply, app_runs>>
    /\ UNCHANGED <<orchVars, selVars, itemVars, carVars, parseVars, logVars>>

\* lines 527-538: the end of the groups, the break, or the next GTIN
AppLoop(w) ==
    /\ app_workers[w].pc = "loop"
    /\ LET me == app_workers[w]
       IN  \/ /\ me.i = Len(me.gtin_groups)
              /\ app_workers' = [app_workers EXCEPT ![w].pc = "close",
                                                    ![w].exit = "completed"]
           \/ /\ me.i < Len(me.gtin_groups)
              /\ ~app_status.running
              /\ app_workers' = [app_workers EXCEPT ![w].pc = "close",
                                                    ![w].exit = "stopped"]
           \/ /\ me.i < Len(me.gtin_groups)
              /\ app_status.running
              /\ app_workers' = [app_workers EXCEPT ![w].pc = "item", ![w].i = @ + 1]
    /\ UNCHANGED <<app_status, app_reply, app_runs>>
    /\ UNCHANGED <<orchVars, selVars, itemVars, carVars, parseVars, logVars>>

\* what a process_single_gtin call ends with: its return value, or the
\* exception of create_asin_folders (line 468, outside its try)
GtinOutcomes == {"true", "false", "raised"}

\* lines 540-551: process_single_gtin for the GTIN, then the counters
AppItem(w) ==
    /\ app_workers[w].pc = "item"
    /\ LET me == app_workers[w]
           gtin == me.gtin_groups[me.i].gtin
       IN  \E gtin_succeeded \in GtinOutcomes :
              IF gtin_succeeded = "raised"
              THEN /\ app_workers' = [app_workers EXCEPT ![w].pc = "summary",
                                                         ![w].exit = "exception"]
                   /\ UNCHANGED app_status
              ELSE /\ app_workers' = [app_workers EXCEPT
                         ![w].pc = "loop",
                         ![w].failed_gtins = IF gtin_succeeded = "false"
                                             THEN @ \cup {gtin} ELSE @]
                   /\ app_status' = [app_status EXCEPT !.completed_items = me.i]
    /\ UNCHANGED <<app_reply, app_runs>>
    /\ UNCHANGED <<orchVars, selVars, itemVars, carVars, parseVars, logVars>>

\* lines 553-554
AppClose(w) ==
    /\ app_workers[w].pc = "close"
    /\ app_workers' = [app_workers EXCEPT ![w].pc = "summary", ![w].browser = "closed"]
    /\ UNCHANGED <<app_status, app_reply, app_runs>>
    /\ UNCHANGED <<orchVars, selVars, itemVars, carVars, parseVars, logVars>>

\* lines 558-559: failed_items and the execution_summary event
AppSummary(w) ==
    /\ app_workers[w].pc = "summary"
    /\ LET failed_items == SortedList(app_workers[w].failed_gtins)
       IN  /\ app_status' = [app_status EXCEPT !.failed_items = failed_items]
           /\ app_workers' = [app_workers EXCEPT
                 ![w].pc = "finally",
                 ![w].summary = <<[failed_items |-> failed_items]>>]
    /\ UNCHANGED <<app_reply, app_runs>>
    /\ UNCHANGED <<orchVars, selVars, itemVars, carVars, parseVars, logVars>>

\* lines 765-768: running is cleared and execution_complete is emitted
AppFinally(w) ==
    /\ app_workers[w].pc = "finally"
    /\ app_status' = [app_status EXCEPT !.running = FALSE]
    /\ app_workers' = [app_workers EXCEPT ![w] = [AppIdleWorker EXCEPT !.pc = "done"]]
    /\ UNCHANGED <<app_reply, app_runs>>
    /\ UNCHANGED <<orchVars, selVars, itemVars, carVars, parseVars, logVars>>

app_run_download_task ==
    \E w \in AppRuns :
        \/ AppCatalogs(w)
        \/ AppLookup(w)
        \/ AppLookupDone(w)
        \/ AppLaunch(w)
        \/ AppLoop(w)
        \/ AppItem(w)
        \/ AppClose(w)
        \/ AppSummary(w)
        \/ AppFinally(w)

AppNext == app_execute_download \/ app_stop_execution \/ app_run_download_task

\* the browser variant after construction: nothing runs
InitApp ==
    /\ OrchInit /\ SelIdle /\ ItemIdle /\ AppIdle /\ CarIdle /\ ParseIdle /\ LogIdle

NextApp == AppNext

SpecApp == InitApp /\ [][NextApp]_vars

\* the steps of the thread of run w
AppThread(w) ==
    /\ w \in AppRuns
    /\ \/ AppCatalogs(w)
       \/ AppLookup(w)
       \/ AppLookupDone(w)
       \/ AppLaunch(w)
       \/ AppLoop(w)
       \/ AppItem(w)
       \/ AppClose(w)
       \/ AppSummary(w)
       \/ AppFinally(w)

\* every thread that was started keeps being scheduled, and every call it
\* makes returns or times out; no request has to arrive
SpecAppLive == SpecApp /\ \A w \in 1..MaxAppRuns : WF_vars(AppThread(w))

(***************************************************************************)
(* The log of execution_status (both variants have the same logger and     *)
(* the same reset).                                                        *)
(***************************************************************************)
\* the levels the callers of log pass
LogLevels == {"info", "warning", "error"}

\* the messages of the model
LogMessages == {"Processing complete.", "Process stopped by user."}

\* line 35 (App.py line 56); the timestamp is left out
log_entry(message, level) == [message |-> message, level |-> level]

\* WebSocketLogger.log, from a handler or from the background thread
Log ==
    /\ logged < MaxLogCalls
    /\ \E message \in LogMessages, level \in LogLevels :
          logs' = Append(logs, log_entry(message, level))
    /\ logged' = logged + 1
    /\ UNCHANGED <<orchVars, selVars, itemVars, appVars, carVars, parseVars>>

\* 'logs': [] of execution_status.update when /execute is accepted
LogReset ==
    /\ logs' = <<>>
    /\ logged' = 0
    /\ UNCHANGED <<orchVars, selVars, itemVars, appVars, carVars, parseVars>>

LogNext == Log \/ LogReset

InitLog ==
    /\ OrchInit /\ SelIdle /\ ItemIdle /\ AppIdle /\ CarIdle /\ ParseIdle
    /\ logs = <<>>
    /\ logged = 0

NextLog == LogNext

SpecLog == InitLog /\ [][NextLog]_vars

(***************************************************************************)
(* Properties of the batch orchestrator (specification Spec).              *)
(***************************************************************************)
\* the worker of run w is inside the item loop of process_all_items
InItemLoop(w) == workers[w].pc \in {"loop", "item"}

\* item j of run w has been through process_single_bmn
Processed(w, j) ==
    /\ j \in 1..workers[w].i
    /\ j = workers[w].i => workers[w].pc \in {"loop", "summary", "finally"}
                           /\ workers[w].exit # "exception"

\* the asset list of the product holds at least one Restricted asset
RestrictedProduct(bmn) ==
    \E a \in Range(Catalog(bmn).assets) : a.assetState = "Restricted"

\* C1: at most one batch run is active at any time: there is never more than
\* one background worker processing items.
C1_AtMostOneWorker == Cardinality({w \in Runs : InItemLoop(w)}) <= 1

\* C2: once a stop request has hit a run, the run starts no item after the one
\* in flight, writes no file for a later item, and when its loop has ended by
\* the stop, completed_items is the number of items it processed.
C2_Cancellation ==
    \A w \in Runs :
        workers[w].stopMark >= 0 =>
            /\ workers[w].i <= workers[w].stopMark
            /\ workers[w].wrote \subseteq 1..workers[w].stopMark
            /\ (workers[w].pc \in {"summary", "finally"} /\ workers[w].exit = "stopped")
                  => completed_items = workers[w].i

\* C3: no per-item error terminates the batch: the worker never leaves the
\* item loop through an exception, whatever fails inside one item.
C3_NoItemErrorTerminates == \A w \in Runs : workers[w].exit # "exception"

\* C4: a product whose asset list holds a Restricted asset never counts as
\* succeeded, has no file written for it, and once processed its id is in the
\* restricted bucket exactly once: never twice, once in the bucket of the run
\* accepted last, and once in the execution_summary of its run.
C4_RestrictedShortCircuit ==
    \A w \in Runs : \A j \in 1..Len(workers[w].items) :
        (RestrictedProduct(workers[w].items[j]) /\ Processed(w, j)) =>
            /\ j \notin workers[w].ok
            /\ j \notin workers[w].wrote
            /\ Occurrences(restricted_bmns, workers[w].items[j]) <= 1
            /\ w = runs => Occurrences(restricted_bmns, workers[w].items[j]) = 1
            /\ workers[w].summary # <<>> =>
                  Occurrences(workers[w].summary[1].restricted_bmns,
                              workers[w].items[j]) = 1

\* C5: the outcome buckets are mutually exclusive: no id is in both the
\* restricted and the not-found bucket, and no item a file was downloaded for
\* is in either of them.
C5_BucketsExclusive ==
    /\ Range(not_in_mojo_bmns) \cap Range(restricted_bmns) = {}
    /\ \A w \in Runs : \A j \in workers[w].wrote \cup workers[w].ok :
          workers[w].items[j] \notin Range(not_in_mojo_bmns) \cup Range(restricted_bmns)

\* a run that downloaded an asset for one item and met a restricted product
C5_Witness ==
    \E w \in Runs :
        /\ workers[w].pc = "finally"
        /\ workers[w].wrote # {}
        /\ \E j \in 1..workers[w].i : workers[w].items[j] \in Range(restricted_bmns)

\* C6: the classification is total: every item a run processed that downloaded
\* no asset and met no restriction is in the not-found bucket of the run's
\* execution_summary event.
C6_ClassificationTotal ==
    \A w \in Runs :
        workers[w].summary # <<>> =>
            \A j \in 1..workers[w].i :
                (j \notin workers[w].ok /\ ~RestrictedProduct(workers[w].items[j]))
                    => workers[w].items[j] \in Range(workers[w].summary[1].failed_bmns)

(***************************************************************************)
(* Properties of the selectors (specification SpecSel).                    *)
(***************************************************************************)
\* the candidates tagged English and not French, French and not English, both
EnglishOnlyCands ==
    {j \in DOMAIN cands : English \in cands[j].languages /\ French \notin cands[j].languages}

FrenchOnlyCands ==
    {j \in DOMAIN cands : French \in cands[j].languages /\ English \notin cands[j].languages}

MultilingualCands == {j \in DOMAIN cands : {English, French} \subseteq cands[j].languages}

\* the English-only and French-only candidates, each the first of its kind
IndividualSelection ==
    (IF EnglishOnlyCands # {}
     THEN <<[idx |-> Min(EnglishOnlyCands), lang |-> "en"]>> ELSE <<>>)
    \o (IF FrenchOnlyCands # {}
        THEN <<[idx |-> Min(FrenchOnlyCands), lang |-> "fr"]>> ELSE <<>>)

\* C7: dual-language policy, hero slot: English-only and French-only
\* candidates are both selected individually, as 'en' and 'fr'; when all the
\* candidates are Multilingual nothing is selected.
C7_HeroPolicy ==
    (called = "Sobeys" /\ slot = "Mobile Hero") =>
        /\ (EnglishOnlyCands # {} /\ FrenchOnlyCands # {} /\ MultilingualCands = {})
              => selected = IndividualSelection
        /\ (cands # <<>> /\ MultilingualCands = DOMAIN cands) => selected = <<>>

\* C8: the asset selected under 'fr' is tagged French and not English, the one
\* selected under 'en' is tagged English and not French.
C8_DisjointLanguageBuckets ==
    called = "Sobeys" =>
        \A k \in DOMAIN selected :
            /\ selected[k].lang = "fr" => selected[k].idx \in FrenchOnlyCands
            /\ selected[k].lang = "en" => selected[k].idx \in EnglishOnlyCands

\* C9: dual-language policy, non-hero slots: if a Multilingual candidate exists
\* exactly that one asset (the first) is selected; otherwise the English-only
\* and French-only candidates are selected individually.
C9_NonHeroPolicy ==
    (called = "Sobeys" /\ slot # "Mobile Hero") =>
        selected = IF MultilingualCands # {}
                   THEN <<[idx |-> Min(MultilingualCands), lang |-> "ml"]>>
                   ELSE IndividualSelection

\* a non-hero call on a list holding all three kinds of candidate
C9_Witness ==
    /\ called = "Sobeys"
    /\ slot = "Nutrition"
    /\ EnglishOnlyCands # {} /\ FrenchOnlyCands # {} /\ MultilingualCands # {}
    /\ Len(selected) = 1

\* C10: single-best policy: at most one asset is selected, the first
\* English-only candidate if there is one, otherwise the first Multilingual
\* one, otherwise nothing; never a French-only candidate; at most one file.
C10_SingleBest ==
    called = "Instacart" =>
        /\ Len(selected) <= 1
        /\ EnglishOnlyCands # {} => selected = <<[idx |-> Min(EnglishOnlyCands), lang |-> ""]>>
        /\ (EnglishOnlyCands = {} /\ MultilingualCands # {})
              => selected = <<[idx |-> Min(MultilingualCands), lang |-> ""]>>
        /\ (EnglishOnlyCands = {} /\ MultilingualCands = {}) => selected = <<>>
        /\ \A k \in DOMAIN selected : selected[k].idx \notin FrenchOnlyCands
        /\ Cardinality(result.files) <= 1
        /\ result.files # {} => (selected # <<>> /\ cands[selected[1].idx].jpg)

\* a call on a list where a Multilingual and a French-only candidate come
\* before the English-only one, which is selected and saved
C10_Witness ==
    /\ called = "Instacart"
    /\ EnglishOnlyCands # {} /\ FrenchOnlyCands # {} /\ MultilingualCands # {}
    /\ Min(EnglishOnlyCands) > Min(MultilingualCands)
    /\ Min(EnglishOnlyCands) > Min(FrenchOnlyCands)
    /\ selected = <<[idx |-> Min(EnglishOnlyCands), lang |-> ""]>>
    /\ result.files # {}

(***************************************************************************)
(* Properties of the carousel and fan-out of the browser variant           *)
(* (specification SpecCar).                                                *)
(***************************************************************************)
\* grid holds the results of the carousel search
InCarousel == phase \in {"carousel", "standard_start"}

\* the details were read and the retailer field is absent or names Amazon
Eligible(c) == c.meta = "ok" /\ (~c.hasRetailer \/ c.retailer_name = "Amazon")

\* the details were read and the retailer field names a retailer other than Amazon
NonAmazonTagged(c) ==
    c.meta = "ok" /\ c.hasRetailer /\ c.retailer_name \notin {" ", "Amazon"}

MaxOf(S) == IF S = {} THEN 0 ELSE CHOOSE m \in S : \A n \in S : m >= n

\* the path of ASIN number k for carousel position sequence_num
FanOutPath(k, sequence_num) ==
    "C:/Downloads/Amazon/" \o asins[k] \o "/" \o asins[k] \o ".PT"
        \o (IF sequence_num < 10 THEN "0" ELSE "") \o ToString(sequence_num) \o ".jpeg"

\* C11: carousel policy: at most one candidate per priority is kept, and the
\* first candidate seen at a priority wins: no later candidate at that
\* priority is downloaded, whatever downloads succeed or fail.
C11_FirstSeenWins ==
    InCarousel =>
        /\ \A j \in kept, k \in kept : grid[j].priority = grid[k].priority => j = k
        /\ \A j \in tried \cup kept : \A k \in 1..(j - 1) :
              ~(Eligible(grid[k]) /\ grid[k].priority = grid[j].priority)

\* C12: the sequence number used for the nutrition asset is the maximum
\* priority seen among the carousel candidates plus one (1 when there is none).
C12_NextFreeSequence ==
    phase = "standard_start" =>
        nutrition_sequence =
            MaxOf({grid[j].priority : j \in {k \in DOMAIN grid : grid[k].meta = "ok"}}) + 1

\* C12 (amended): the sequence number used for the nutrition asset is one plus
\* the maximum priority among the carousel candidates examined whose details
\* could be read and whose retailer field is absent or names Amazon, whether
\* or not their download succeeded, and 1 when there is no such candidate.
C12_NextFreeAfterEligible ==
    phase = "standard_start" =>
        nutrition_sequence =
            MaxOf({grid[j].priority : j \in {k \in DOMAIN grid : Eligible(grid[k])}}) + 1

\* a candidate of another retailer carries the highest priority, and the
\* nutrition asset takes the number after the eligible one
C12_Witness ==
    /\ phase = "standard_start"
    /\ \E j \in DOMAIN grid, k \in DOMAIN grid :
          /\ NonAmazonTagged(grid[j]) /\ grid[j].priority = 2
          /\ Eligible(grid[k]) /\ grid[k].priority = 1
    /\ nutrition_sequence = 2

C14_FanOut ==
    (saved # <<>> /\ ~saved[1].save.raised) =>
        LET saved_files == saved[1].save.saved_files
        IN  /\ Len(saved_files) = Len(asins)
            /\ Cardinality({saved_files[k].path : k \in DOMAIN saved_files})
                  = Cardinality(Range(asins))
            /\ \A k \in DOMAIN saved_files :
                  /\ saved_files[k].path = FanOutPath(k, saved[1].sequence_num)
                  /\ saved_files[k].download = saved_files[1].download
                  /\ saved_files[k].download[2] = pos

\* a carousel image saved for a GTIN with two ASINs
C14_Witness ==
    /\ saved # <<>> /\ ~saved[1].save.raised
    /\ Len(asins) = 2
    /\ phase = "carousel"
    /\ pos \in kept

(***************************************************************************)
(* Properties of the parser and of the start request with an upload        *)
(* (specification SpecParse).                                              *)
(***************************************************************************)
\* the BMN of row j: the text of its BMN cell without the padding
BmnText(j) == StripCell(table.rows[j].bmn)

\* row j has a BMN
HasBmn(j) == StripCell(CellStr(table.rows[j].bmn)) \notin {"", "nan"}

\* the rows that are the first of their BMN
FirstRows ==
    {j \in DOMAIN table.rows :
        HasBmn(j) /\ \A k \in 1..(j - 1) : HasBmn(k) => BmnText(k) # BmnText(j)}

\* the m-th of them, in sheet order
NthFirstRow(m) == CHOOSE j \in FirstRows : Cardinality({k \in FirstRows : k <= j}) = m

\* the sheet is of an allowed type, readable, and has the columns of the mode
Parsable ==
    /\ allowed_file(table.filename)
    /\ table.readable
    /\ Range(required_cols(retailer_mode)) \subseteq df_columns(table)

\* the identifier columns the retailer mode needs
ModeColumns ==
    CASE retailer_mode = "Sobeys"    -> {"Article ID"}
      [] retailer_mode = "Instacart" -> {"GTIN"}
      [] OTHER                       -> {"Article ID", "GTIN"}

\* C15: parser deduplication: the identifier list holds each BMN at most once,
\* in the order of the first occurrences, and the article id and GTIN of an
\* entry are those of the first row of its BMN.
C15_ParserDeduplication ==
    parsed # <<>> =>
        LET search_data == parsed[1].search_data
        IN  /\ \A m \in DOMAIN search_data, n \in DOMAIN search_data :
                  search_data[m].bmn = search_data[n].bmn => m = n
            /\ Parsable => Len(search_data) = Cardinality(FirstRows)
            /\ search_data # <<>> =>
                  /\ Len(search_data) = Cardinality(FirstRows)
                  /\ \A m \in DOMAIN search_data :
                        LET row == table.rows[NthFirstRow(m)]
                        IN  /\ search_data[m].bmn = BmnText(NthFirstRow(m))
                            /\ ("Article ID" \in ModeColumns /\ row.article_id # NaN)
                                  => search_data[m].article_id = row.article_id
                            /\ "GTIN" \in ModeColumns => search_data[m].gtin = row.gtin

\* a sheet whose second row repeats the BMN of the first with padding and
\* another article id, followed by a new BMN
C15_Witness ==
    /\ parsed # <<>>
    /\ retailer_mode = "Both"
    /\ Len(table.rows) = 3
    /\ table.rows[1].bmn = "100" /\ table.rows[2].bmn = "100 " /\ table.rows[3].bmn = "200"
    /\ table.rows[1].article_id = "A1" /\ table.rows[2].article_id = "A2"
    /\ Len(parsed[1].search_data) = 2
    /\ parsed[1].search_data[1].article_id = "A1"

\* C16: parser duplicate report: the number of BMN duplicates reported equals
\* the number of rows with a BMN minus the number of unique BMNs.
C16_DuplicateCount ==
    (parsed # <<>> /\ Parsable) =>
        Cardinality(parsed[1].duplicates["duplicate_bmns"])
            = Cardinality({j \in DOMAIN table.rows : HasBmn(j)}) - Cardinality(FirstRows)

\* C17: when the sheet lacks a column the retailer mode needs, the start
\* request fails and the batch does not start: running stays false and no
\* worker is launched.
C17_MissingColumnsNoStart ==
    (parsed # <<>> /\ ~(ModeColumns \subseteq df_columns(table))) =>
        /\ response = 400
        /\ ~running
        /\ runs = 0
        /\ \A w \in Runs : workers[w].pc = "idle"
        /\ total_items = 0

\* a sheet with BMN rows and no Article ID column, uploaded for both retailers
C17_Witness ==
    /\ parsed # <<>>
    /\ retailer_mode = "Both"
    /\ df_columns(table) = {"BMN", "GTIN"}
    /\ \E j \in DOMAIN table.rows : HasBmn(j)
    /\ response = 400

(***************************************************************************)
(* Properties of the runs of the browser variant (specification SpecApp)   *)
(* and of the log (specification SpecLog).                                 *)
(***************************************************************************)
\* the last request answered was a stop request
StopAnswered == app_reply.request = "stop"

C19_LogBufferBounded == Len(logs) < MaxLogCalls

\* C20: a summary event is emitted at the end of every run, before
\* execution_complete: a thread that reaches the finally clause has emitted
\* execution_summary.
C20_SummaryAtEveryEnd ==
    \A w \in AppRuns : app_workers[w].pc = "finally" => app_workers[w].summary # <<>>

\* C21: the browser session is explicitly closed on every exit path of the
\* download phase: a thread that has left process_all_items after launching
\* the browser has called browser_context.close().
C21_BrowserClosedOnEveryExit ==
    \A w \in AppRuns :
        app_workers[w].pc = "finally" => app_workers[w].browser # "open"

(***************************************************************************)
(* Further properties of the batch orchestrator (specification Spec).      *)
(***************************************************************************)
\* C22: under every interleaving of start requests, stop requests and worker
\* steps, the completed counter never exceeds total and never decreases
\* except when it is reset to 0.
C22_CompletedCounter ==
    /\ [](completed_items <= total_items)
    /\ [][completed_items' >= completed_items \/ completed_items' = 0]_vars

(***************************************************************************)
(* Further properties of process_single_bmn (specification SpecItem).      *)
(***************************************************************************)
\* the files the assets selected for one slot of one retailer give when each
\* download is taken by itself: one file per selected asset with a jpg url
\* whose download succeeds
SlotFilesAlone(retailer_name, asset_label, assets_for_type, save_id, env) ==
    IF assets_for_type = <<>> THEN {}
    ELSE IF retailer_name = "Sobeys"
    THEN {RetailerFolder(retailer_name) \o "/"
             \o get_sobeys_filename(save_id, e.lang, asset_label) :
          e \in {s \in Range(SobeysSelection(assets_for_type, asset_label)) :
                    /\ JpgUrl(assets_for_type[s.idx]) # ""
                    /\ env[JpgUrl(assets_for_type[s.idx])] = "ok"}}
    ELSE {RetailerFolder(retailer_name) \o "/"
             \o get_instacart_filename(save_id, asset_label) :
          e \in {s \in Range(InstacartSelection(assets_for_type)) :
                    /\ JpgUrl(assets_for_type[s]) # ""
                    /\ env[JpgUrl(assets_for_type[s])] = "ok"}}

\* the same for all slots of all retailers of the call in progress
ItemFilesAlone(env) ==
    LET answer == Catalog(item_data.bmn)
        valid_assets == SelectSeq(answer.assets, LAMBDA a : a.assetState = "Current")
    IN  UNION {SlotFilesAlone(retailers[r], asset_label,
                              AssetsForType(valid_assets, asset_label),
                              RetailerSaveId(retailers[r], item_data), env) :
               r \in {k \in DOMAIN retailers : RetailerSaveId(retailers[k], item_data) # ""},
               asset_label \in Range(RetailerAssetTypes("Sobeys"))
                               \cup Range(RetailerAssetTypes("Instacart"))}

\* the product is one whose assets are downloaded
Downloadable ==
    LET answer == Catalog(item_data.bmn)
    IN  /\ ~answer.neterr /\ answer.status < 400
        /\ \A j \in DOMAIN answer.assets :
              answer.assets[j].assetState # "Restricted"
              /\ answer.assets[j].hasLanguages

\* how a download ends when it succeeds or fails: save_image_from_url
\* returns True, or catches the error of the request and returns False
DownloadEndings == {"ok", "neterr"}

StructuredNotFound ==
    LET answer == Catalog(item_data.bmn)
    IN  /\ ~answer.neterr
        /\ answer.status = 500
        /\ answer.title \in {"NotFound", "NotFoundException"}

\* the service answers with another error, or cannot be reached
GenericError ==
    LET answer == Catalog(item_data.bmn)
    IN  (answer.neterr \/ answer.status >= 400) /\ ~StructuredNotFound

\* C24: not-found is distinguished from generic server errors: an item goes
\* to the not-found bucket only when the service reports the structured
\* not-found condition or returns no assets; a generic server or network
\* error adds it to no bucket and does not end the batch.
C24_NotFoundDistinguished ==
    outcome # <<>> =>
        LET answer == Catalog(item_data.bmn)
        IN  /\ outcome[1].bucket = "not_in_mojo" =>
                  \/ StructuredNotFound
                  \/ ~answer.neterr /\ answer.status < 400 /\ answer.assets = <<>>
            /\ GenericError =>
                  /\ outcome[1].bucket = "none"
                  /\ ~outcome[1].raised
                  /\ ~outcome[1].ret /\ outcome[1].files = {}

\* a BMN answered with status 500 and another title has been processed
C24_Witness ==
    /\ outcome # <<>>
    /\ item_data.bmn = "350"
    /\ outcome[1].bucket = "none"

(***************************************************************************)
(* Further properties of the runs of the browser variant (specification    *)
(* SpecApp).                                                               *)
(***************************************************************************)
\* the place of the first item of the input list with this GTIN
FirstPlace(w, gtin) ==
    Min({j \in DOMAIN app_workers[w].items : app_workers[w].items[j] = gtin})

\* the products of run w are scheduled in the order of the input list
InInputOrder(w) ==
    LET gtin_groups == app_workers[w].gtin_groups
    IN  \A a \in DOMAIN gtin_groups :
           /\ gtin_groups[a].gtin \in Range(app_workers[w].items)
           /\ \A b \in DOMAIN gtin_groups :
                 a < b => FirstPlace(w, gtin_groups[a].gtin)
                             < FirstPlace(w, gtin_groups[b].gtin)

\* a step of the item loop of run w: an item is started only at the head of
\* the loop and is the one after the last; the head of the loop is reached
\* again only through the end of that item, which emits item_completed with
\* completed = its place and writes it to completed_items
OneItemAtATime(w) ==
    LET me == app_workers[w]
        next == app_workers'[w]
    IN  /\ (next.pc = "item" /\ me.pc # "item") =>
              me.pc = "loop" /\ next.i = me.i + 1 /\ next.i <= Len(me.gtin_groups)
        /\ (me.pc = "item" /\ next.pc # "item") =>
              /\ next.pc \in {"loop", "summary"}
              /\ next.i = me.i
              /\ next.pc = "loop" => app_status'.completed_items = me.i
        /\ (me.pc \in {"loop", "item"} /\ next.pc \in {"loop", "item"}) =>
              /\ next.i \in {me.i, me.i + 1}
              /\ next.gtin_groups = me.gtin_groups
        /\ (next.pc = "loop" /\ me.pc \notin {"loop", "item"}) =>
              me.pc = "launch" /\ next.i = 0

\* C25: items are processed strictly in input order, one at a time: item k+1
\* is started only after the item_completed event of item k, and the
\* completed values of the item_completed events of a run are 1, 2, 3, ...
C25_InOrderOneAtATime ==
    /\ [](\A w \in AppRuns : InInputOrder(w))
    /\ [][\A w \in AppRuns : OneItemAtATime(w)]_vars

\* the second product of a run is in progress after the first was completed;
\* the input list named it first
C25_Witness ==
    \E w \in AppRuns :
        /\ app_workers[w].pc = "item"
        /\ app_workers[w].i = 2
        /\ app_status.completed_items = 1
        /\ app_workers[w].items = <<GtinFresh, GtinKnown>>
        /\ app_workers[w].gtin_groups[1].gtin = GtinFresh

(***************************************************************************)
(* Further properties of process_single_gtin (specification SpecCar).      *)
(***************************************************************************)
\* a step that starts nothing: no search is made, no result is examined, no
\* download is started and nothing is saved
StartsNothing ==
    /\ num_items' \in {num_items, 0}
    /\ Len(grid') <= Len(grid)
    /\ tried' \subseteq tried
    /\ kept' \subseteq kept
    /\ saved' = <<>> \/ saved' = saved
    /\ downloads_succeeded' = downloads_succeeded

\* a step that takes no product from the list of process_all_items
SchedulesNothing ==
    \A w \in DOMAIN app_workers :
        app_workers'[w].pc = "item" => app_workers[w].pc = "item"

\* C26: the running flag is checked at every slot and candidate boundary:
\* once it is cleared the current product starts no further slot, neither
\* carousel nor nutrition, and no further candidate download, and no new
\* product is scheduled.
C26_StopAtBoundaries ==
    [][~app_status.running => StartsNothing /\ SchedulesNothing]_vars

\* the carousel loop was left by its break before the last result, the flag
\* being cleared after a download
C26_Witness ==
    /\ ~app_status.running
    /\ phase = "standard_start"
    /\ 0 < pos /\ pos < num_items
    /\ tried # {}

(***************************************************************************)
(* The reset of execution_status by POST /execute (specification Spec).    *)
(***************************************************************************)
\* a start request is accepted in this step
StartAccepted == runs' = runs + 1

\* the step is taken by the thread of the newest run
NewestRunSteps == runs > 0 /\ workers'[runs] # workers[runs]

\* C27: the run's state is reset at the start of each new run: immediately
\* after a start request is accepted running is true, completed is 0 and both
\* failure buckets are empty, and from then on the counter and the buckets are
\* written by the new run only, so that nothing recorded by an earlier run
\* appears in them.
C27_ResetAtStart ==
    /\ [][StartAccepted =>
             /\ running' /\ completed_items' = 0
             /\ not_in_mojo_bmns' = <<>> /\ restricted_bmns' = <<>>]_vars
    /\ [][<<completed_items, not_in_mojo_bmns, restricted_bmns>>' #
             <<completed_items, not_in_mojo_bmns, restricted_bmns>>
          => StartAccepted \/ NewestRunSteps]_vars

ScenarioItem == [bmn |-> "100", article_id |-> "A1", gtin |-> "G1"]

\* the call of the scenario has been made and every download has succeeded
ScenarioDone ==
    /\ outcome # <<>>
    /\ item_data = ScenarioItem
    /\ retailers = <<"Sobeys">>
    /\ outcome[1] = process_single_bmn(ScenarioItem, <<"Sobeys">>,
                                       [u \in UrlsOf("100") |-> "ok"])

\* the two lists of execution_status after the run of this one item (lines
\* 198, 211, 217), and the summary made of them
ScenarioBucket(name) ==
    IF outcome[1].bucket = name THEN <<item_data.bmn>> ELSE <<>>

ScenarioSummary ==
    execution_summary(ScenarioBucket("not_in_mojo"), ScenarioBucket("restricted"))

\* exactly the two files of the scenario are written
ScenarioFiles ==
    outcome[1].files = {"C:/Downloads/Sobeys/A1_EA_en_na_left_na.jpg",
                        "C:/Downloads/Sobeys/A1_EA_fr_na_left_na.jpg"}

\* the summary names no restricted and no not-found item
ScenarioNoFailures ==
    /\ ScenarioSummary.failed_bmns = <<>>
    /\ ScenarioSummary.restricted_bmns = <<>>

\* C29: in the end-to-end Sobeys scenario exactly two files are written, named
\* A1_EA_en_na_left_na.jpg and A1_EA_fr_na_left_na.jpg, and the summary
\* reports 1 succeeded, 0 restricted and 0 not-found.
C29_SobeysScenario ==
    ScenarioDone =>
        /\ ScenarioFiles
        /\ ScenarioNoFailures
        /\ "succeeded_count" \in DOMAIN ScenarioSummary
        /\ ScenarioSummary["succeeded_count"] = 1

(***************************************************************************)
(* Rows without a BMN (specification SpecParse).                           *)
(***************************************************************************)
\* the sheet without the rows whose BMN is empty, blank or "nan"
WithoutBlankRows(sheet) ==
    [sheet EXCEPT !.rows =
        SelectSeq(sheet.rows,
                  LAMBDA row : StripCell(CellStr(row.bmn)) \notin {"", "nan"})]

\* C30: rows whose BMN is empty or the string "nan" are dropped by the parser
\* without failing: they never appear in the identifier list, and the list
\* is the one parsed from the sheet without them.
C30_BlankRowsDropped ==
    (parsed # <<>> /\ allowed_file(table.filename)) =>
        /\ \A m \in DOMAIN parsed[1].search_data :
              parsed[1].search_data[m].bmn \notin {"", "nan"}
        /\ parsed[1].search_data =
              parse_search_ids_from_file(WithoutBlankRows(table),
                                         retailer_mode).search_data
        /\ (Parsable /\ \E j \in DOMAIN table.rows : HasBmn(j))
              => parsed[1].search_data # <<>>

\* a sheet with a blank BMN, an empty BMN and then a BMN: the one row is kept
C30_Witness ==
    /\ parsed # <<>>
    /\ Len(table.rows) = 3
    /\ table.rows[1].bmn = " " /\ table.rows[2].bmn = NaN /\ table.rows[3].bmn = "200"
    /\ Len(parsed[1].search_data) = 1
    /\ parsed[1].search_data[1].bmn = "200"

(***************************************************************************)
(* Termination of the background thread (specification SpecAppLive).       *)
(***************************************************************************)
\* the w-th start request has been accepted
AppStarted(w) == app_runs >= w

\* the thread of run w has run its finally clause (running cleared,
\* execution_complete emitted) and the flag is false
AppCompleteEmitted(w) ==
    /\ app_runs >= w
    /\ app_workers[w].pc = "done"
    /\ ~app_status.running

\* C31: every accepted start request is eventually followed by the running
\* flag being false and an execution_complete event, on every path of the
\* thread (normal completion, stop, early return, exception), every external
\* call returning or timing out.
C31_EventuallyComplete ==
    \A w \in 1..MaxAppRuns : AppStarted(w) ~> AppCompleteEmitted(w)

\* a run has ended and left the flag cleared
C31_Witness == AppCompleteEmitted(1)

(***************************************************************************)
(* The running flag and the buckets across runs (specification Spec).      *)
(***************************************************************************)
\* the thread of run w runs its finally clause in this step
Finishes(w) == workers[w].pc = "finally" /\ workers'[w].pc = "done"

\* C32: a worker clears the running flag only for its own run: the thread of
\* an earlier run, when it ends, never clears the flag that a later accepted
\* start request has set.
C32_ClearsOwnFlagOnly ==
    [][\A w \in Runs : (Finishes(w) /\ running) => w = runs]_vars

\* C33: the failure buckets of a run hold only ids of items of that run's
\* input: nothing processed by the thread of an earlier run is appended to
\* the not-found or the restricted bucket after a new run has reset them.
C33_BucketsOfThisRun ==
    (runs > 0 /\ Alive(runs)) =>
        Range(not_in_mojo_bmns) \cup Range(restricted_bmns)
            \subseteq Range(workers[runs].items)

(***************************************************************************)
(* The ASIN lookup of the browser variant (specification SpecApp).         *)
(***************************************************************************)
\* an input GTIN that is not blank and is shorter than 12 characters
ShortGtin(gtin) == StripChars(gtin) # <<>> /\ Len(StripChars(gtin)) < 12

\* the lookup has recorded the GTIN as having no ASIN
RecordedNoAsin(w, gtin) ==
    \E k \in DOMAIN app_workers[w].expanded_items :
        app_workers[w].expanded_items[k] =
            [gtin |-> gtin, asin |-> "", lookup_status |-> "no_asin_found"]

\* C34: in the catalog-file ASIN lookup an input GTIN shorter than 12
\* characters is treated as having no ASIN: once the lookup has taken it, it
\* is recorded with lookup_status 'no_asin_found' and the thread has not been
\* left through an exception, whatever the position of the GTIN in the list.
C34_ShortGtinNoAsin ==
    \A w \in AppRuns : \A j \in DOMAIN app_workers[w].items :
        ShortGtin(app_workers[w].items[j]) =>
            /\ RecordedNoAsin(w, app_workers[w].items[j])
            /\ ~(app_workers[w].exit = "exception" /\ j = Len(app_workers[w].items)
                 /\ app_workers[w].gtin_groups = <<>>)

(***************************************************************************)
(* The files in the ASIN folders (specification SpecCar).                  *)
(***************************************************************************)
\* the search whose results grid holds
SearchOfGrid == IF phase \in {"carousel", "standard_start"} THEN "carousel" ELSE "standard"

\* the files the download of result j of grid was saved as
SavedFor(j) ==
    IF j \in tried /\ grid[j].fetch = "ok"
    THEN Range(save_to_all_asin_folders(
                   <<SearchOfGrid, j>>, asins,
                   IF SearchOfGrid = "carousel" THEN "" ELSE "Main",
                   IF SearchOfGrid = "carousel" THEN grid[j].priority
                                                ELSE nutrition_sequence,
                   grid[j].saves).saved_files)
    ELSE {}

RECURSIVE FoldersAfter(_)
\* the files of the ASIN folders after the first n results of grid, a later
\* save to a path replacing the earlier one
FoldersAfter(n) ==
    IF n = 0 THEN {}
    ELSE {f \in FoldersAfter(n - 1) : \A g \in SavedFor(n) : g.path # f.path}
         \cup SavedFor(n)

\* the downloads held as the file of sequence number p, over all ASIN folders
HeldAs(p) ==
    {f.download : f \in {g \in FoldersAfter(Len(grid)) :
                            \E a \in Range(asins) :
                               g.path = AsinPath(a, AsinFilename(a, "", p))}}

\* C35: for every sequence number, all ASIN folders that hold the file of that
\* sequence number hold a copy of the same source asset, for every pattern of
\* save successes and failures and every number of ASINs.
C35_FanOutSameSource ==
    \A p \in 1..(MaxPriority + 1) : Cardinality(HeldAs(p)) <= 1

\* C36: the nutrition image never overwrites a carousel image: the sequence
\* number given to the nutrition asset is strictly greater than the priority
\* of every carousel image saved or attempted for the GTIN, and it is the
\* number every nutrition download is saved with.
C36_NutritionAfterCarousel ==
    /\ [](phase = "standard_start" =>
             \A j \in tried : grid[j].priority < nutrition_sequence)
    /\ []((phase \in {"standard", "returned"} /\ saved # <<>>) =>
             saved[1].sequence_num = nutrition_sequence)
    /\ [][(phase \in {"standard_start", "standard"}) =>
             nutrition_sequence' = nutrition_sequence]_vars

\* the nutrition image saved as PT03 after carousel images of priority 1 and 2
C36_Witness ==
    /\ phase = "returned"
    /\ gtin_result = <<TRUE>>
    /\ downloads_succeeded = 2
    /\ nutrition_sequence = 3
    /\ saved # <<>> /\ saved[1].sequence_num = 3 /\ ~saved[1].save.raised

\* the call was cut short by a stop request: it returned with the flag
\* cleared and the nutrition search never made
CutShort ==
    /\ phase = "returned"
    /\ ~app_status.running
    /\ num_items = 0
    /\ nutrition_sequence > 0

\* C37: a GTIN is reported in failed_items and counted in completed_items
\* only if its processing ran through all its slots: a GTIN whose processing
\* was cut short by a stop request is neither reported as failed nor counted
\* as completed.
C37_CutShortNotCounted ==
    CutShort => (app_status.failed_items = <<>> /\ app_status.completed_items = 0)

\* a sequence without a repeated entry
NoRepeat(seq) == \A m \in DOMAIN seq, n \in DOMAIN seq : seq[m] = seq[n] => m = n

\* C38: each GTIN is downloaded once per run and its list of target ASINs
\* holds no duplicates, so that each destination path is written at most
\* once per source asset, for every input list, one that repeats a GTIN on
\* several rows included.
C38_OncePerGtinAndAsin ==
    \A w \in AppRuns :
        LET groups == app_workers[w].gtin_groups
        IN  /\ NoRepeat([k \in DOMAIN groups |-> groups[k].gtin])
            /\ \A k \in DOMAIN groups : NoRepeat(groups[k].asins)

\* the characters of the identifiers
Digits == {"0", "1", "2", "3", "4", "5", "6", "7", "8", "9"}

\* a text of digits, 12 characters or more
LongDigits(text) == Len(text) >= 12 /\ Range(text) \subseteq Digits

\* the two texts are the same digits up to leading zeros
SameUpToZeros(a, b) == LStrip(a, "0") = LStrip(b, "0")

\* the catalog rows whose status is one of valid_statuses and that name an ASIN
ListedRows ==
    {row \in CatalogRows : StatusTitle(row.status) \in valid_statuses /\ row.asin # ""}

\* the lookup of thread w has recorded the ASIN for the GTIN
RecordedAsin(w, gtin, asin) ==
    \E k \in DOMAIN app_workers[w].expanded_items :
        app_workers[w].expanded_items[k] =
            [gtin |-> gtin, asin |-> asin, lookup_status |-> "success"]

\* C39: lookup-key normalization is the same on both sides: a catalog UPC and
\* an input GTIN of 12 characters or more that are equal up to leading zeros
\* map to the same lookup key, so that the input GTIN finds every ASIN
\* recorded under that UPC.
C39_SameLookupKey ==
    \A w \in AppRuns : \A j \in DOMAIN app_workers[w].items : \A row \in ListedRows :
        LET gtin_input_str == StripChars(app_workers[w].items[j])
            upc_str == UpcStr(row.upc)
        IN  (LongDigits(gtin_input_str) /\ LongDigits(upc_str)
             /\ SameUpToZeros(gtin_input_str, upc_str)) =>
                /\ LookupKeyOf(gtin_input_str) = UpcLookupKey(upc_str)
                /\ RecordedAsin(w, app_workers[w].items[j], row.asin)

\* a GTIN of 14 digits has found both ASINs of its 12-digit UPC, and a GTIN
\* with five leading zeros the ASIN of a UPC with three
C39_Witness ==
    \E w \in AppRuns :
        /\ app_workers[w].items = <<GtinKnown, GtinFresh>>
        /\ RecordedAsin(w, GtinKnown, "B1") /\ RecordedAsin(w, GtinKnown, "B2")
        /\ RecordedAsin(w, GtinFresh, "B3")

=============================================================================
